---- MODULE Spec2Model ----
(***************************************************************************)
(* A model of hls-stac-parquet: the bounded-concurrency fetcher            *)
(* (fetch.py), the catalog pagination and link extraction (cmr_api.py)     *)
(* and the monthly consolidator (write.py).                                *)
(*                                                                         *)
(* Python values are modelled as records with a type tag "t", so that None *)
(* and values of different types can be compared.  Strings that the code   *)
(* inspects (href values, storage paths) are sequences of tokens.          *)
(***************************************************************************)
EXTENDS Integers, Sequences, FiniteSets, TLC

VARIABLES
    \* ---- fetch.py: fetch_stac_items ----
    fpc,              \* position of fetch_stac_items: idle, call, gather, returned, raised
    stac_links,       \* the argument: a list of parsed links
    max_concurrent,   \* the argument
    stores_by_netloc, \* the netlocs a store was created for
    semaphore,        \* [made, value]: the asyncio.Semaphore
    tasks,            \* one record per fetch_with_error_handling coroutine
    successful_items, \* first component of the return value
    failed_links,     \* second component of the return value
    completed,        \* the tasks in the order they finished
    \* ---- cmr_api.py: get_cmr_results_async / collect_cmr_results ----
    cpc,              \* position of the generator: idle, request, await, yield, done, raised
    headers,          \* headers["cmr-search-after"], None when the key is absent
    requests,         \* the requests issued: the cursor header each one carried
    served,           \* the responses the catalog gave, in order
    yieldIdx,         \* the next entry of the current page to yield
    results,          \* the list collect_cmr_results appends to
    returned,         \* what collect_cmr_results returned, None while it has not
    \* ---- cmr_api.py: extract_stac_json_links ----
    epc,              \* position of extract_stac_json_links: idle, loop, returned, raised
    cmr_results,      \* the argument `results`: a list of result records
    prefix,           \* the argument
    eidx,             \* the index of the record the loop is at
    extracted,        \* the local list stac_links
    ext_exc,          \* the exception that left the function, "" when none
    \* ---- write.py: write_monthly_stac_geoparquet ----
    mpc,              \* position of the run: idle, start, list, validate, sort, fetch,
                      \* fetching, write, and the ends skipped, done, failed
    collection,       \* the argument
    yearmonth,        \* the argument: [year, month]
    require_complete_links, \* the argument
    skip_existing,    \* the argument
    store,            \* the destination store: path -> content
    store0,           \* the store as it was when the run started
    actual_links,     \* the paths the listing returned
    stac_json_links,  \* the URL strings read from the daily caches
    expected_links,   \* the daily paths the completeness check expects
    error_args,       \* the arguments of the ValueError raised, <<>> when none
    stac_items,       \* the fetched documents, tagged
    write_calls,      \* the calls of rustac.write: [path, items]
    \* ---- links.py: cache_daily_stac_json_links, called again and again ----
    dpc,              \* position of the call: idle, start, query, put, and the ends
                      \* done, skipped, raised
    cache_collection, \* the argument collection
    cache_date,       \* the argument date: [year, month, day]
    cache_skip_existing, \* the argument skip_existing
    cache_store,      \* the destination store: path -> content
    cache_links,      \* stac_links of the running call, None before the query returns
    cache_queries,    \* the catalog queries issued: [call, collection, date]
    cache_puts,       \* the puts issued: [call, path, content]
    cache_history,    \* per finished call: [outcome, store, links]
    \* ---- write.py: the sort by the spatial key, on its own ----
    spc,              \* idle, start, sorted, raised; probe, probed
    sort_input,       \* the list of URL strings to sort
    sort_keys,        \* the outcome of hilbert_sort_key for each of them
    sort_output,      \* the list after list.sort
    probe,            \* a position [lat, lon] in hundredths of a degree
    probe_index,      \* its index along the curve, -1 before it is computed
    \* ---- constants.py: the daily cache path of two keys ----
    ppc,              \* idle, start, done
    key_a,            \* a key [collection, year, month, day]
    key_b,            \* another key
    path_a,           \* LINK_PATH_FORMAT of key_a
    path_b,           \* LINK_PATH_FORMAT of key_b
    prefix_a,         \* LINK_PATH_PREFIX of key_a's month
    \* ---- handler.py: handler ----
    hpc,              \* idle, start, loop, returned, raised
    event,            \* the argument: [has_records, Records]
    hidx,             \* idx of the loop over event["Records"]
    batch_item_failures, \* the list of {"itemIdentifier": ...}
    processed,        \* the calls of process_record: [idx, exc]
    response,         \* the value returned, None before the return
    \* ---- infrastructure/lambda/batch_publisher.py: handler ----
    bpc,              \* idle, start, loop, returned, raised
    pub_event,        \* the event: [collection, start_date, end_date], a date absent as <<>>
    now,              \* what datetime.now() returns during the call
    start_date,       \* the parsed or defaulted start, None before
    end_date,         \* the parsed or defaulted end, None before
    current_date,     \* the loop variable, None before the loop
    published_messages, \* the list of [date, message_id]
    sns_messages,     \* the messages the topic has accepted, in order
    pub_exc,          \* what the call raised: [kind, date], kind "" when nothing
    pub_response,     \* the value returned, None before the return
    \* ---- cmr_api.py: create_hls_query; validation.py: validate_bbox ----
    qpc,              \* idle, start, returned, raised
    bounding_box,     \* the argument: <<>> for None, or (west, south, east, north)
    temporal,         \* the argument: <<>> for None, or (start, end)
    query,            \* the GranuleQuery returned: its parameters, None before
    validated,        \* what validate_bbox gave for the box, None before it is called
    \* ---- api.py: get_summary_stats ----
    stats_pc,         \* idle, start, returned
    stats_results,    \* the argument `results`: a list of per-day result dicts
    stats,            \* the dict returned, None before the return
    \* ---- api.py, cli.py: generate_date_range, generate_month_dates ----
    gpc,              \* idle, start, returned
    dates_call,       \* the call: [fn, start_date, end_date] or [fn, year, month]
    dates,            \* the list returned, None before the return
    \* ---- api.py: process_dates_parallel ----
    par_pc,              \* idle, start, gather, returned
    par_dates,        \* the dates passed, a list of datetimes
    max_concurrent_days, \* the limit passed
    par_skip_existing,   \* the skip_existing passed
    output_files,     \* the date strings whose parquet file exists in output_dir
    day_semaphore,    \* [made, value] of the Semaphore of the call
    day_tasks,        \* one task per date: [st, outcome, result]
    day_completed,    \* the indexes of the tasks in the order they finished
    processed_results, \* the list returned, None before the return
    \* ---- links.py: two invocations of cache_daily_stac_json_links at once ----
    inv_pc,           \* per invocation: idle, start, query, put, done, skipped, raised
    inv_collection,   \* the collection both invocations are given
    inv_date,         \* the date both invocations are given
    inv_skip_existing, \* the skip_existing both invocations are given
    shared_store,     \* the store at dest, shared by the invocations
    inv_links,        \* per invocation: the links its query returned, None before
    shared_puts       \* the puts the store has received, in order

fetchVars == <<fpc, stac_links, max_concurrent, stores_by_netloc, semaphore,
               tasks, successful_items, failed_links, completed>>

cmrVars == <<cpc, headers, requests, served, yieldIdx, results, returned>>

extractVars == <<epc, cmr_results, prefix, eidx, extracted, ext_exc>>

monthlyVars == <<mpc, collection, yearmonth, require_complete_links, skip_existing,
                 store, store0, actual_links, stac_json_links, expected_links,
                 error_args, stac_items, write_calls>>

dailyVars == <<dpc, cache_collection, cache_date, cache_skip_existing, cache_store,
               cache_links, cache_queries, cache_puts, cache_history>>

sortVars == <<spc, sort_input, sort_keys, sort_output, probe, probe_index>>

pathVars == <<ppc, key_a, key_b, path_a, path_b, prefix_a>>

handlerVars == <<hpc, event, hidx, batch_item_failures, processed, response>>

publisherVars == <<bpc, pub_event, now, start_date, end_date, current_date,
                   published_messages, sns_messages, pub_exc, pub_response>>

queryVars == <<qpc, bounding_box, temporal, query, validated>>

statsVars == <<stats_pc, stats_results, stats>>

datesVars == <<gpc, dates_call, dates>>

daysVars == <<par_pc, par_dates, max_concurrent_days, par_skip_existing, output_files,
              day_semaphore, day_tasks, day_completed, processed_results>>

concurrentVars == <<inv_pc, inv_collection, inv_date, inv_skip_existing, shared_store,
                    inv_links, shared_puts>>

vars == <<fetchVars, cmrVars, extractVars, monthlyVars,
         dailyVars,
         sortVars,
         pathVars,
         handlerVars,
         publisherVars,
         queryVars,
         statsVars,
         datesVars,
         daysVars,
         concurrentVars>>

-----------------------------------------------------------------------------
\* Bounds of the model.
MaxLinks == 3
MaxConcurrent == 2
MaxPages == 3
MaxEntriesPerPage == 2
MaxRecords == 2
MaxRecordLinks == 2
LastYear == 2016
MaxCalls == 2
MaxDailyLinks == 2
MaxSortLen == 3
MaxBatch == 3

\* The first year of the data (constants.py).
FirstYear == 2013

-----------------------------------------------------------------------------
\* Python values.
PyNone == [t |-> "None"]

PyStr(s) == [t |-> "str", v |-> s]
PyList(s) == [t |-> "list", v |-> s]
PyDict(m) == [t |-> "dict", m |-> m]

\* A string is a sequence of tokens; no token is a proper prefix or suffix of
\* another, so that startswith and endswith on tokens agree with the ones on
\* characters.
Url(scheme, host, path) == <<scheme, "://", host>> \o path

StartsWith(s, p) == Len(s) >= Len(p) /\ SubSeq(s, 1, Len(p)) = p
EndsWith(s, p) == Len(s) >= Len(p) /\ SubSeq(s, Len(s) - Len(p) + 1, Len(s)) = p

\* urllib.parse.urlparse: the scheme before "://", the netloc up to the next
\* "/", the rest as the path.
UrlParse(u) ==
    IF Len(u) >= 3 /\ u[2] = "://"
    THEN [t |-> "ParseResult", scheme |-> u[1], netloc |-> u[3], path |-> SubSeq(u, 4, Len(u))]
    ELSE [t |-> "ParseResult", scheme |-> "", netloc |-> "", path |-> u]

\* ParseResult.geturl
GetUrl(link) ==
    IF link.scheme = "" THEN link.path ELSE <<link.scheme, "://", link.netloc>> \o link.path

\* The links a batch is drawn from: two hosts, two paths on the first.
FetchUrls ==
    { Url("https", "hostA", <<"/", "a_", "stac.json">>),
      Url("https", "hostA", <<"/", "b_", "stac.json">>),
      Url("https", "hostB", <<"/", "a_", "stac.json">>) }

ParseResults == { UrlParse(u) : u \in FetchUrls }

\* What one fetch_stac_item call can end in: obs.get_async raising (network
\* error, non-success status), json.loads raising, or a parsed JSON value,
\* which is the Python None for the body "null" and a dict for a STAC item.
FetchOutcomes == {"StoreError", "ParseError", "Null", "Doc"}

IsException(outcome) == outcome \in {"StoreError", "ParseError"}

\* The value fetch_stac_item returns for a body that parsed.
ParsedItem(outcome, i, link) ==
    IF outcome = "Null" THEN PyNone
    ELSE [t |-> "dict", from |-> i, url |-> link, collection |-> "unset"]

SeqsUpTo(S, n) == UNION { [1..k -> S] : k \in 0..n }

Range(s) == { s[i] : i \in DOMAIN s }

-----------------------------------------------------------------------------
\* fetch.py

NoTask == [st |-> "none", outcome |-> "none", item |-> PyNone, failed |-> PyNone]

\* A handler that catches nothing.
HandlerCatchesNothing(outcome) == FALSE

\* `except Exception` of fetch_with_error_handling.
HandlerCatches(outcome) == IsException(outcome)

InFlight == { i \in DOMAIN tasks : tasks[i].st = "fetching" }

\* A limiter that counts per host instead of across the batch.
CanAcquirePerHost(i) ==
    /\ semaphore.made
    /\ Cardinality({ j \in InFlight : stac_links[j].netloc = stac_links[i].netloc })
          < max_concurrent

\* `async with semaphore`: asyncio.Semaphore.acquire proceeds when value > 0.
CanAcquire(i) == semaphore.made /\ semaphore.value > 0

\* An exit that keeps the permit of a fetch that raised.
ExitKeepsPermitOnError(sem, outcome) ==
    IF IsException(outcome) THEN sem ELSE [sem EXCEPT !.value = @ + 1]

\* Line 101: leaving `async with semaphore`, by return or by exception,
\* calls Semaphore.release.
SemaphoreExit(sem, outcome) == [sem EXCEPT !.value = @ + 1]

\* The result tuple of one finished task.
TaskResult(outcome, i, link) ==
    IF IsException(outcome)
    THEN [st |-> "done", outcome |-> outcome, item |-> PyNone,
          failed |-> [t |-> "link", from |-> i, url |-> link]]
    ELSE [st |-> "done", outcome |-> outcome, item |-> ParsedItem(outcome, i, link),
          failed |-> PyNone]

RECURSIVE SuccessOf(_)
SuccessOf(rs) ==
    IF rs = <<>> THEN <<>>
    ELSE (IF Head(rs).item # PyNone THEN <<Head(rs).item>> ELSE <<>>) \o SuccessOf(Tail(rs))

RECURSIVE FailedOf(_)
FailedOf(rs) ==
    IF rs = <<>> THEN <<>>
    ELSE (IF Head(rs).failed # PyNone THEN <<Head(rs).failed>> ELSE <<>>) \o FailedOf(Tail(rs))

\* Results handed over in the order the tasks finished.
ResultsAsCompleted(ts, order) == [k \in DOMAIN order |-> ts[order[k]]]

\* Lines 113-118: asyncio.gather, and tqdm's gather, which indexes the
\* awaitables and sorts the finished (index, result) pairs: the results are in
\* the order of the awaitables passed, whatever order they finished in.
GatherResults(ts, order) == ts

\* Lines 86-111: the empty-input return, or the stores, the semaphore and one
\* coroutine per link.
FetchCall ==
    /\ fpc = "call"
    /\ IF stac_links = <<>>
       THEN /\ fpc' = "returned"
            /\ successful_items' = <<>>
            /\ failed_links' = <<>>
            /\ UNCHANGED <<stores_by_netloc, semaphore, tasks>>
       ELSE /\ fpc' = "gather"
            /\ stores_by_netloc' = { stac_links[i].netloc : i \in DOMAIN stac_links }
            /\ semaphore' = [made |-> TRUE, value |-> max_concurrent]
            /\ tasks' = [i \in DOMAIN stac_links |-> [NoTask EXCEPT !.st = "pending"]]
            /\ UNCHANGED <<successful_items, failed_links>>
    /\ UNCHANGED <<stac_links, max_concurrent, completed>>

\* Line 101: a task enters `async with semaphore` and starts its fetch.
TaskAcquire(i) ==
    /\ fpc \in {"gather", "raised"}
    /\ i \in DOMAIN tasks
    /\ tasks[i].st = "pending"
    /\ CanAcquire(i)
    /\ semaphore' = [semaphore EXCEPT !.value = @ - 1]
    /\ tasks' = [tasks EXCEPT ![i].st = "fetching"]
    /\ UNCHANGED <<fpc, stac_links, max_concurrent, stores_by_netloc,
                   successful_items, failed_links, completed>>

\* Lines 102-108: the fetch ends; the handler turns an exception into
\* (None, link); leaving the `async with` block releases the permit.
TaskFinish(i) ==
    /\ fpc \in {"gather", "raised"}
    /\ i \in DOMAIN tasks
    /\ tasks[i].st = "fetching"
    /\ \E outcome \in FetchOutcomes :
          /\ tasks' = [tasks EXCEPT ![i] =
                         IF IsException(outcome) /\ ~HandlerCatches(outcome)
                         THEN [NoTask EXCEPT !.st = "raised", !.outcome = outcome]
                         ELSE TaskResult(outcome, i, stac_links[i])]
          /\ semaphore' = SemaphoreExit(semaphore, outcome)
    /\ completed' = Append(completed, i)
    /\ UNCHANGED <<fpc, stac_links, max_concurrent, stores_by_netloc,
                   successful_items, failed_links>>

\* Lines 113-130: gather re-raises the first exception a task raised (the
\* other tasks are not cancelled); otherwise it returns the results in the
\* order of the tasks (asyncio.gather, and tqdm's gather sorts by index) and
\* the loop partitions them.
GatherEnd ==
    /\ fpc = "gather"
    /\ IF \E i \in DOMAIN tasks : tasks[i].st = "raised"
       THEN /\ fpc' = "raised"
            /\ UNCHANGED <<successful_items, failed_links>>
       ELSE /\ \A i \in DOMAIN tasks : tasks[i].st = "done"
            /\ fpc' = "returned"
            /\ successful_items' = SuccessOf(GatherResults(tasks, completed))
            /\ failed_links' = FailedOf(GatherResults(tasks, completed))
    /\ UNCHANGED <<stac_links, max_concurrent, stores_by_netloc, semaphore, tasks,
                   completed>>

FetchIdle ==
    /\ stores_by_netloc = {}
    /\ semaphore = [made |-> FALSE, value |-> 0]
    /\ tasks = <<>>
    /\ successful_items = <<>>
    /\ failed_links = <<>>
    /\ completed = <<>>

-----------------------------------------------------------------------------
\* cmr_api.py: the pagination

\* Truth value of a header value: None and the empty string are falsy.
Truthy(x) == x # PyNone /\ x # PyStr(<<>>)

\* What the catalog can put in the cmr-search-after response header.
CursorValues == { PyNone, PyStr(<<>>), PyStr(<<"tokA">>), PyStr(<<"tokB">>) }

\* The entries of page p: each record is distinct.
PageEntries(p, n) == [j \in 1..n |-> PyDict([id |-> <<p, j>>])]

\* A raise_for_status that never raises.
RaisesNever(status) == FALSE

\* httpx.Response.raise_for_status
RaisesForStatus(status) == status >= 400

\* A loop that keeps the headers of the first request.
KeepHeaders(old, cursor) == old

\* Line 69: headers["cmr-search-after"] = cmr_search_after
NextHeaders(old, cursor) == cursor

\* Line 59: client.get(url, headers=headers)
CmrRequest ==
    /\ cpc = "request"
    /\ requests' = Append(requests, headers)
    /\ cpc' = "await"
    /\ UNCHANGED <<headers, served, yieldIdx, results, returned>>

\* Lines 59-62: the catalog answers; raise_for_status raises on a non-success
\* status, and the exception leaves the generator and collect_cmr_results.
\* The catalog ends the pagination within MaxPages pages.
CmrResponse ==
    /\ cpc = "await"
    /\ \E status \in {200, 500}, n \in 0..MaxEntriesPerPage, cursor \in CursorValues :
          /\ (Len(served) + 1 = MaxPages /\ status = 200) => ~Truthy(cursor)
          /\ served' = Append(served, [status |-> status,
                                       entry |-> PageEntries(Len(served) + 1, n),
                                       cursor |-> cursor])
          /\ cpc' = IF RaisesForStatus(status) THEN "raised" ELSE "yield"
    /\ yieldIdx' = 1
    /\ UNCHANGED <<headers, requests, results, returned>>

CurrentPage == served[Len(served)]

\* Lines 63-64 and 119-120: the generator yields one entry and
\* collect_cmr_results appends it.
CmrYield ==
    /\ cpc = "yield"
    /\ yieldIdx <= Len(CurrentPage.entry)
    /\ results' = Append(results, CurrentPage.entry[yieldIdx])
    /\ yieldIdx' = yieldIdx + 1
    /\ UNCHANGED <<cpc, headers, requests, served, returned>>

\* Lines 66-69 and 122: without a cursor the generator ends and
\* collect_cmr_results returns the list; with one the loop goes on.
CmrCursor ==
    /\ cpc = "yield"
    /\ yieldIdx > Len(CurrentPage.entry)
    /\ IF ~Truthy(CurrentPage.cursor)
       THEN /\ cpc' = "done"
            /\ returned' = PyList(results)
            /\ UNCHANGED headers
       ELSE /\ cpc' = "request"
            /\ headers' = NextHeaders(headers, CurrentPage.cursor)
            /\ UNCHANGED returned
    /\ UNCHANGED <<requests, served, yieldIdx, results>>

CmrIdle ==
    /\ headers = PyNone
    /\ requests = <<>>
    /\ served = <<>>
    /\ yieldIdx = 1
    /\ results = <<>>
    /\ returned = PyNone

CmrNotCalled ==
    /\ cpc = "idle"
    /\ CmrIdle
-----------------------------------------------------------------------------
\* cmr_api.py: extract_stac_json_links

\* The href values of the records: strings, matching or not, and values of
\* other JSON types.
HrefValues ==
    { PyStr(Url("https", "hostA", <<"/", "a_", "stac.json">>)),
      PyStr(Url("https", "hostA", <<"/", "a", ".tif">>)),
      PyStr(Url("s3", "bucket", <<"/", "b_", "stac.json">>)),
      PyNone,
      [t |-> "int"] }

\* The entries of a links array: a non-mapping, a mapping without href, and
\* mappings with each href value.
LinkEntries ==
    { PyStr(<<"x">>), PyDict(<<>>) } \cup { PyDict([href |-> h]) : h \in HrefValues }

\* The result records: not a mapping, no links key, a links value that is not
\* a list, and every short links array.
ResultRecords ==
    { PyNone, PyDict(<<>>), PyDict([links |-> PyNone]), PyDict([links |-> PyStr(<<"x">>)]) }
      \cup { PyDict([links |-> PyList(es)]) : es \in SeqsUpTo(LinkEntries, MaxRecordLinks) }

HasKey(dict, k) == k \in DOMAIN dict.m

Suffix == <<"stac.json">>

\* Lines 92-98: the condition of the generator expression on one entry, with
\* `and` evaluated left to right: "true", "false", or the exception raised.
LinkMatches(link, pre) ==
    IF link.t # "dict" THEN "false"
    ELSE IF ~HasKey(link, "href") THEN "false"
    ELSE IF link.m.href.t # "str" THEN "AttributeError"
    ELSE IF ~EndsWith(link.m.href.v, Suffix) THEN "false"
    ELSE IF ~StartsWith(link.m.href.v, pre) THEN "false"
    ELSE "true"

\* Lines 91-98: next() over the generator expression: the href of the first
\* entry that matches, StopIteration when none does, or the exception an
\* entry's condition raised.
RECURSIVE NextMatch(_, _)
NextMatch(links, pre) ==
    IF links = <<>> THEN [exc |-> "StopIteration", href |-> PyNone]
    ELSE LET m == LinkMatches(Head(links), pre) IN
         IF m = "true" THEN [exc |-> "", href |-> Head(links).m.href]
         ELSE IF m = "false" THEN NextMatch(Tail(links), pre)
         ELSE [exc |-> m, href |-> PyNone]

\* Line 100: except (StopIteration, KeyError, TypeError)
ExceptClause(exc) == exc \in {"StopIteration", "KeyError", "TypeError"}

\* Lines 86-102: the body of the loop for one record: the exception raised
\* in the try block ("" when none) and the href found.
TryRecord(result, pre) ==
    IF result.t # "dict" THEN [exc |-> "TypeError", href |-> PyNone]
    ELSE IF ~HasKey(result, "links") \/ result.m.links.t # "list"
         THEN [exc |-> "", href |-> PyNone]
    ELSE NextMatch(result.m.links.v, pre)

\* Lines 85-102: one iteration of the loop over the records.
ExtractRecord ==
    /\ epc = "loop"
    /\ eidx <= Len(cmr_results)
    /\ LET r == TryRecord(cmr_results[eidx], prefix) IN
         IF r.exc # "" /\ ~ExceptClause(r.exc)
         THEN /\ epc' = "raised"
              /\ ext_exc' = r.exc
              /\ UNCHANGED <<eidx, extracted>>
         ELSE /\ extracted' = IF r.exc = "" /\ r.href # PyNone
                              THEN Append(extracted, UrlParse(r.href.v))
                              ELSE extracted
              /\ eidx' = eidx + 1
              /\ UNCHANGED <<epc, ext_exc>>
    /\ UNCHANGED <<cmr_results, prefix>>

\* Line 103: return stac_links
ExtractReturn ==
    /\ epc = "loop"
    /\ eidx > Len(cmr_results)
    /\ epc' = "returned"
    /\ UNCHANGED <<cmr_results, prefix, eidx, extracted, ext_exc>>

ExtractIdle ==
    /\ eidx = 1
    /\ extracted = <<>>
    /\ ext_exc = ""

ExtractNotCalled ==
    /\ epc = "idle"
    /\ cmr_results = <<>>
    /\ prefix = <<>>
    /\ ExtractIdle

-----------------------------------------------------------------------------
\* constants.py: the storage paths and the origin dates

Collections == {"HLSL30", "HLSS30"}

\* HlsCollection.collection_id
CollectionId(c) == <<c, "_2.0">>

\* COLLECTION_ORIGIN_DATES
OriginDate(c) ==
    IF c = "HLSL30" THEN [year |-> 2013, month |-> 4, day |-> 11]
    ELSE [year |-> 2015, month |-> 11, day |-> 28]

DigitChars == <<"0", "1", "2", "3", "4", "5", "6", "7", "8", "9">>

\* str.format of a non-negative int with "{}": its decimal digits.
RECURSIVE FormatInt(_)
FormatInt(n) ==
    IF n < 10 THEN <<DigitChars[n + 1]>>
    ELSE FormatInt(n \div 10) \o <<DigitChars[(n % 10) + 1]>>

\* str.format with "{:02d}": zero-padded to at least two digits.
Format02d(n) == IF n < 10 THEN <<"0">> \o FormatInt(n) ELSE FormatInt(n)

\* LINK_PATH_PREFIX.format(collection_id, year, month)
LinkPathPrefix(c, year, month) ==
    <<"links", "/">> \o CollectionId(c) \o <<"/">> \o FormatInt(year)
       \o <<"/">> \o Format02d(month)

\* A format without the day.
LinkPathOfMonth(c, year, month, day) ==
    LinkPathPrefix(c, year, month) \o <<"/">> \o FormatInt(year) \o <<"-">>
       \o Format02d(month) \o <<".json">>

\* LINK_PATH_FORMAT.format(collection_id, year, month, day)
LinkPath(c, year, month, day) ==
    LinkPathPrefix(c, year, month) \o <<"/">> \o FormatInt(year) \o <<"-">>
       \o Format02d(month) \o <<"-">> \o Format02d(day) \o <<".json">>

\* PARQUET_PATH_FORMAT.format(version, collection_id, year=str(year), month=str(month))
ParquetPath(version, c, year, month) ==
    <<version, "/">> \o CollectionId(c) \o <<"/", "year=">> \o FormatInt(year)
       \o <<"/", "month=">> \o FormatInt(month) \o <<"/">> \o CollectionId(c)
       \o <<"-">> \o FormatInt(year) \o <<"-">> \o FormatInt(month) \o <<".parquet">>

-----------------------------------------------------------------------------
\* datetime: the proleptic Gregorian calendar, as the standard library
\* computes it.

IsLeap(y) == y % 4 = 0 /\ (y % 100 # 0 \/ y % 400 = 0)

DaysInMonth(y, m) ==
    IF m = 2 THEN (IF IsLeap(y) THEN 29 ELSE 28)
    ELSE IF m \in {4, 6, 9, 11} THEN 30 ELSE 31

DaysBeforeYear(y) ==
    365 * (y - 1) + ((y - 1) \div 4) - ((y - 1) \div 100) + ((y - 1) \div 400)

RECURSIVE DaysBeforeMonth(_, _)
DaysBeforeMonth(y, m) ==
    IF m = 1 THEN 0 ELSE DaysBeforeMonth(y, m - 1) + DaysInMonth(y, m - 1)

\* datetime.toordinal
ToOrdinal(date) ==
    DaysBeforeYear(date.year) + DaysBeforeMonth(date.year, date.month) + date.day

\* datetime.fromordinal, for the years around the model's.
FromOrdinal(n) ==
    LET y == CHOOSE yy \in (FirstYear - 1)..(LastYear + 2) :
                DaysBeforeYear(yy) < n /\ n <= DaysBeforeYear(yy + 1)
        m == CHOOSE mm \in 1..12 :
                /\ DaysBeforeYear(y) + DaysBeforeMonth(y, mm) < n
                /\ n <= DaysBeforeYear(y) + DaysBeforeMonth(y, mm) + DaysInMonth(y, mm)
    IN [year |-> y, month |-> m, day |-> n - DaysBeforeYear(y) - DaysBeforeMonth(y, m)]

\* datetime - timedelta(days=k)
MinusDays(date, k) == FromOrdinal(ToOrdinal(date) - k)

-----------------------------------------------------------------------------
\* write.py: the spatial sort key

HilbertBits == 14
GridSide == 2 ^ HilbertBits
Sentinel == 2 ^ 28

\* Bitwise and, exclusive or: recursive over the bits, each level on values.
RECURSIVE BitAnd(_, _)
BitAnd(a, b) ==
    IF a = 0 \/ b = 0 THEN 0
    ELSE CHOOSE r \in { ((aa % 2) * (bb % 2)) + 2 * BitAnd(aa \div 2, bb \div 2) :
                          <<aa, bb>> \in {<<a, b>>} } : TRUE

RECURSIVE BitXor(_, _)
BitXor(a, b) ==
    IF a = 0 THEN b ELSE IF b = 0 THEN a
    ELSE CHOOSE r \in { (((aa % 2) + (bb % 2)) % 2) + 2 * BitXor(aa \div 2, bb \div 2) :
                          <<aa, bb>> \in {<<a, b>>} } : TRUE

\* HilbertCurve.distance_from_point for two dimensions: the inverse undo of
\* the excess work for one value of q, on the second coordinate (i = 1).
UndoSecond(a, q) ==
    IF BitAnd(a[2], q) # 0 THEN <<BitXor(a[1], q - 1), a[2]>>
    ELSE CHOOSE r \in { <<BitXor(a[1], t), BitXor(a[2], t)>> :
                          t \in {BitAnd(BitXor(a[1], a[2]), q - 1)} } : TRUE

\* The same for both coordinates; for the first (i = 0) t = (x ^ x) & (q - 1)
\* is 0 and changes nothing when the bit is clear.
UndoStep(pt, q) ==
    CHOOSE r \in { UndoSecond(a, q) :
                     a \in {IF BitAnd(pt[1], q) # 0 THEN <<BitXor(pt[1], q - 1), pt[2]>> ELSE pt} } :
        TRUE

RECURSIVE Undo(_, _)
Undo(pt, q) ==
    IF q <= 1 THEN pt
    ELSE CHOOSE r \in { Undo(n, h) : <<n, h>> \in {<<UndoStep(pt, q), q \div 2>>} } : TRUE

RECURSIVE GrayMask(_, _)
GrayMask(last, q) ==
    IF q <= 1 THEN 0
    ELSE CHOOSE r \in { BitXor(IF BitAnd(last, q) # 0 THEN q - 1 ELSE 0, rest) :
                          rest \in {GrayMask(last, q \div 2)} } : TRUE

\* _transpose_to_distance: the bits of the two values interleaved, the first
\* value's bit before the second's, most significant first.
RECURSIVE Interleave(_, _, _)
Interleave(x, y, bits) ==
    IF bits = 0 THEN 0
    ELSE CHOOSE r \in { 4 * Interleave(xx \div 2, yy \div 2, bits - 1) + 2 * (xx % 2) + (yy % 2) :
                          <<xx, yy>> \in {<<x, y>>} } : TRUE

\* The Gray encoding of the two values.
GrayEncode(u) == <<u[1], BitXor(u[2], u[1])>>

DistanceFromPoint(x, y) ==
    LET m == 2 ^ (HilbertBits - 1) IN
    CHOOSE d \in { Interleave(BitXor(g[1], t), BitXor(g[2], t), HilbertBits) :
                     <<g, t>> \in { <<gg, GrayMask(gg[2], m)>> :
                                      gg \in { GrayEncode(u) : u \in {Undo(<<x, y>>, m)} } } } :
        TRUE

\* MGRS.toLatLon for the tiles of the model, in hundredths of a degree
\* (rounded); a tile the converter rejects has ok = FALSE.
MgrsToLatLon(tile) ==
    IF tile = "60WWV" THEN [ok |-> TRUE, lat |-> 6400, lon |-> 17700]
    ELSE IF tile = "15TVM" THEN [ok |-> TRUE, lat |-> 4605, lon |-> -9429]
    ELSE [ok |-> FALSE, lat |-> 0, lon |-> 0]

\* The tokens that are a tile code: two digits and three capitals.
TileCodes == {"60WWV", "15TVM", "00ABC"}

Clamp(v) == IF v < 0 THEN 0 ELSE IF v > GridSide - 1 THEN GridSide - 1 ELSE v

\* Lines 76-84: the grid cell of a position given in hundredths of a
\* degree, clamped, and its distance along the curve.
LatLonToHilbertIndex(lat, lon) ==
    DistanceFromPoint(Clamp(((lon + 18000) * GridSide) \div 36000),
                      Clamp(((lat + 9000) * GridSide) \div 18000))

\* Lines 69-84, the body of the try: the exception it raises, "" when none,
\* and the value it returns.
ConversionBody(tile) ==
    LET ll == MgrsToLatLon(tile) IN
    IF ~ll.ok THEN [exc |-> "MGRSError", v |-> -1]
    ELSE [exc |-> "", v |-> LatLonToHilbertIndex(ll.lat, ll.lon)]

\* A handler that catches nothing.
ExceptNothing(exc) == FALSE

\* Line 85: `except Exception` catches every exception of the body.
ExceptException(exc) == TRUE

\* mgrs_to_hilbert_index with its outcome: the value of the body, the
\* sentinel when the body raises and the handler catches, the exception
\* otherwise.
MgrsToHilbertIndexResult(tile) ==
    LET r == ConversionBody(tile) IN
    IF r.exc = "" THEN r
    ELSE IF ExceptException(r.exc) THEN [exc |-> "", v |-> Sentinel]
    ELSE r

\* mgrs_to_hilbert_index: the value returned.
MgrsToHilbertIndex(tile) == MgrsToHilbertIndexResult(tile).v

\* extract_mgrs_from_url: the first match of \.T([0-9]{2}[A-Z]{3})\. in the
\* URL, None when there is none.
ExtractMgrsFromUrl(url) ==
    LET hits == { i \in 1..(Len(url) - 2) :
                    url[i] = ".T" /\ url[i + 1] \in TileCodes /\ url[i + 2] = "." }
    IN IF hits = {} THEN PyNone
       ELSE PyStr(url[(CHOOSE i \in hits : \A j \in hits : i <= j) + 1])

\* write_monthly_stac_geoparquet.hilbert_sort_key with its outcome.
HilbertSortKeyResult(url) ==
    LET mgrs_tile == ExtractMgrsFromUrl(url) IN
    IF mgrs_tile # PyNone THEN MgrsToHilbertIndexResult(mgrs_tile.v)
    ELSE [exc |-> "", v |-> Sentinel]

\* write_monthly_stac_geoparquet.hilbert_sort_key: the value returned.
HilbertSortKey(url) == HilbertSortKeyResult(url).v

\* An insertion before the elements of equal key.
RECURSIVE InsertBeforeEqual(_, _)
InsertBeforeEqual(sorted, url) ==
    IF sorted = <<>> THEN <<url>>
    ELSE IF HilbertSortKey(Head(sorted)) < HilbertSortKey(url)
         THEN <<Head(sorted)>> \o InsertBeforeEqual(Tail(sorted), url)
         ELSE <<url>> \o sorted

\* list.sort(key=...): a stable insertion of each element after the elements
\* whose key is not greater.
RECURSIVE InsertByKey(_, _)
InsertByKey(sorted, url) ==
    IF sorted = <<>> THEN <<url>>
    ELSE IF HilbertSortKey(Head(sorted)) <= HilbertSortKey(url)
         THEN <<Head(sorted)>> \o InsertByKey(Tail(sorted), url)
         ELSE <<url>> \o sorted

\* A list left in the order it was read.
Unsorted(urls) == urls

RECURSIVE SortByKey(_)
SortByKey(urls) ==
    IF urls = <<>> THEN <<>>
    ELSE InsertByKey(SortByKey(SubSeq(urls, 1, Len(urls) - 1)), urls[Len(urls)])

-----------------------------------------------------------------------------
\* write.py: write_monthly_stac_geoparquet

Version == "version"

\* max_concurrent=50 of the call at line 222
FetchConcurrency == 50

OutPath == ParquetPath(Version, collection, yearmonth.year, yearmonth.month)

\* obstore.list(store, prefix=...): the objects under the prefix, a prefix
\* matching whole path segments.
UnderPrefix(path, pre) == StartsWith(path, pre \o <<"/">>)

ListedPaths(st) ==
    { path \in DOMAIN st :
        UnderPrefix(path, LinkPathPrefix(collection, yearmonth.year, yearmonth.month)) }

\* The listing as a sequence, in key order: the daily paths by day, then the
\* other objects, whose names sort after the digits.
RECURSIVE DailyFrom(_, _)
DailyFrom(st, day) ==
    IF day > 31 THEN <<>>
    ELSE LET path == LinkPath(collection, yearmonth.year, yearmonth.month, day) IN
         (IF path \in DOMAIN st THEN <<path>> ELSE <<>>) \o DailyFrom(st, day + 1)

RECURSIVE SetToSeq(_)
SetToSeq(S) ==
    IF S = {} THEN <<>> ELSE LET x == CHOOSE y \in S : TRUE IN <<x>> \o SetToSeq(S \ {x})

ListStream(st) == DailyFrom(st, 1) \o SetToSeq(ListedPaths(st) \ Range(DailyFrom(st, 1)))

\* Lines 162-168: the contents of the listed objects, concatenated.
RECURSIVE ReadAll(_, _)
ReadAll(st, paths) ==
    IF paths = <<>> THEN <<>> ELSE st[Head(paths)].v \o ReadAll(st, Tail(paths))

\* Lines 173-177: the last date of the month.
LastDateInMonth(year, month) ==
    LET next_month == IF month < 12 THEN month + 1 ELSE 1
        next_year == IF month < 12 THEN year ELSE year + 1
    IN MinusDays([year |-> next_year, month |-> next_month, day |-> 1], 1)

\* A first day that ignores the origin date.
FirstDayOne(c, year, month) == 1

\* Lines 180-183: the first expected day.
FirstDay(c, year, month) ==
    IF year = OriginDate(c).year /\ month = OriginDate(c).month
    THEN OriginDate(c).day ELSE 1

\* Lines 188-196
ExpectedLinks(c, year, month) ==
    LET first_day == FirstDay(c, year, month)
        last_day == LastDateInMonth(year, month).day
    IN [k \in 1..(last_day + 1 - first_day) |-> LinkPath(c, year, month, first_day + k - 1)]

\* A check that only looks for missing days.
SomeExpectedMissing(expected, actual) == ~(Range(expected) \subseteq Range(actual))

\* Line 198: not set(expected_links) == set(actual_links)
SetsDiffer(expected, actual) == Range(expected) # Range(actual)

\* Lines 199-202: the two arguments of the ValueError; the text joined with
\* newlines is kept as its lines.
CompletenessError(expected, actual, links) ==
    << [head |-> "expected these links: ", lines |-> expected],
       [head |-> "found these links:", lines |-> links] >>

\* An order of the steps that leaves out the sort.
StepAfterWithoutSort(pc, require) ==
    CASE pc = "list" -> IF require THEN "validate" ELSE "fetch"
      [] pc = "validate" -> "fetch"
      [] pc = "fetch" -> "write"

\* An order of the steps that checks completeness after the fetch.
StepAfterCheckLate(pc, require) ==
    CASE pc = "list" -> "sort"
      [] pc = "sort" -> "fetch"
      [] pc = "fetch" -> IF require THEN "validate" ELSE "write"
      [] pc = "validate" -> "write"

\* The order of the steps of lines 151-245.
StepAfter(pc, require) ==
    CASE pc = "list" -> IF require THEN "validate" ELSE "sort"
      [] pc = "validate" -> "sort"
      [] pc = "sort" -> "fetch"
      [] pc = "fetch" -> "write"

\* A check that never finds the object.
CheckExistsNever(st, path) == FALSE

\* _check_exists: head_async returns for an object that is there and raises
\* FileNotFoundError for one that is not.
CheckExists(st, path) == path \in DOMAIN st

\* A run that never skips.
NeverSkips(skip, st, path) == FALSE

\* Lines 146-147: skip_existing and the object is there.
ShouldSkip(skip, st, path) == skip /\ CheckExists(st, path)

\* Lines 134-149: the output path and the skip of an existing file.
MonthlyStart ==
    /\ mpc = "start"
    /\ mpc' = IF ShouldSkip(skip_existing, store, OutPath) THEN "skipped" ELSE "list"
    /\ UNCHANGED <<collection, yearmonth, require_complete_links, skip_existing, store,
                   store0, actual_links, stac_json_links, expected_links, error_args,
                   stac_items, write_calls>>

\* Lines 151-170: the listing of the month prefix and the read of each
\* listed object.
MonthlyList ==
    /\ mpc = "list"
    /\ \E listed \in {ListStream(store)} :
          /\ actual_links' = listed
          /\ stac_json_links' = ReadAll(store, listed)
    /\ mpc' = StepAfter("list", require_complete_links)
    /\ UNCHANGED <<collection, yearmonth, require_complete_links, skip_existing, store,
                   store0, expected_links, error_args, stac_items, write_calls>>

\* Lines 172-202: the completeness check.
MonthlyValidate ==
    /\ mpc = "validate"
    /\ \E expected \in {ExpectedLinks(collection, yearmonth.year, yearmonth.month)} :
          /\ expected_links' = expected
          /\ IF SetsDiffer(expected, actual_links)
             THEN /\ mpc' = "failed"
                  /\ error_args' = CompletenessError(expected, actual_links, stac_json_links)
             ELSE /\ mpc' = StepAfter("validate", require_complete_links)
                  /\ UNCHANGED error_args
    /\ UNCHANGED <<collection, yearmonth, require_complete_links, skip_existing, store,
                   store0, actual_links, stac_json_links, stac_items, write_calls>>

\* Lines 209-219: the sort by the spatial key.
MonthlySort ==
    /\ mpc = "sort"
    /\ stac_json_links' = SortByKey(stac_json_links)
    /\ mpc' = StepAfter("sort", require_complete_links)
    /\ UNCHANGED <<collection, yearmonth, require_complete_links, skip_existing, store,
                   store0, actual_links, expected_links, error_args, stac_items,
                   write_calls>>

\* Lines 222-226: the call of fetch_stac_items on the parsed links.
MonthlyFetchCall ==
    /\ mpc = "fetch"
    /\ fpc = "idle"
    /\ mpc' = "fetching"
    /\ fpc' = "call"
    /\ stac_links' = [i \in DOMAIN stac_json_links |-> UrlParse(stac_json_links[i])]
    /\ max_concurrent' = FetchConcurrency
    /\ UNCHANGED <<stores_by_netloc, semaphore, tasks, successful_items, failed_links,
                   completed>>
    /\ UNCHANGED <<collection, yearmonth, require_complete_links, skip_existing, store,
                   store0, actual_links, stac_json_links, expected_links, error_args,
                   stac_items, write_calls>>

\* A run that gives up when a link failed.
AnyFailureFatal(failed) == failed # <<>>

\* Lines 227-228: failed links are logged as a warning, nothing is raised.
FailedLinksFatal(failed) == FALSE

\* Lines 222-231: fetch_stac_items has returned; every item is tagged with
\* the collection id.  An exception of the fetch would end the run.
MonthlyFetchReturn ==
    /\ mpc = "fetching"
    /\ fpc \in {"returned", "raised"}
    /\ IF fpc = "returned" /\ ~FailedLinksFatal(failed_links)
       THEN /\ stac_items' = [i \in DOMAIN successful_items |->
                                [successful_items[i] EXCEPT !.collection = CollectionId(collection)]]
            /\ mpc' = StepAfter("fetch", require_complete_links)
       ELSE /\ mpc' = "failed"
            /\ UNCHANGED stac_items
    /\ UNCHANGED <<collection, yearmonth, require_complete_links, skip_existing, store,
                   store0, actual_links, stac_json_links, expected_links, error_args,
                   write_calls>>

\* Lines 234-247: rustac.write of the items at the output path.
MonthlyWrite ==
    /\ mpc = "write"
    /\ write_calls' = Append(write_calls, [path |-> OutPath, items |-> stac_items])
    /\ store' = [path \in DOMAIN store \cup {OutPath} |->
                   IF path = OutPath THEN [t |-> "parquet", v |-> stac_items]
                   ELSE store[path]]
    /\ mpc' = "done"
    /\ UNCHANGED <<collection, yearmonth, require_complete_links, skip_existing,
                   store0, actual_links, stac_json_links, expected_links, error_args,
                   stac_items>>

MonthlyIdle ==
    /\ actual_links = <<>>
    /\ stac_json_links = <<>>
    /\ expected_links = <<>>
    /\ error_args = <<>>
    /\ stac_items = <<>>
    /\ write_calls = <<>>

MonthlyNotCalled ==
    /\ mpc = "idle"
    /\ collection = "HLSL30"
    /\ yearmonth = [year |-> FirstYear, month |-> 1]
    /\ require_complete_links = FALSE
    /\ skip_existing = FALSE
    /\ store = <<>>
    /\ store0 = <<>>
    /\ MonthlyIdle

\* The URL strings the daily caches of the model hold.
UrlNoTile == Url("https", "hostB", <<"/", "a_", "stac.json">>)
UrlTile == Url("https", "hostA", <<"/", "HLS.S30", ".T", "60WWV", ".", "2025275", "_", "stac.json">>)

\* What write_stac_links stored for a day: a JSON array of URL strings.
DayContent(day) ==
    IF day = 15 THEN PyList(<<UrlNoTile>>)
    ELSE IF day = 28 THEN PyList(<<UrlTile>>)
    ELSE PyList(<<>>)

\* Another object under the month's prefix.
ExtraPath(c, year, month) == LinkPathPrefix(c, year, month) \o <<"/", "notes", ".json">>

\* The days whose cache the store can start with: the first of the month or
\* the day of the collection's origin date; and a day it can lack.
FirstCachedDays(c) == {1, OriginDate(c).day}
MissingDays == {0, 15}

\* A store holding the daily caches of the days from `first` to the end of
\* the month except `missing`, possibly another object under the prefix, the
\* first day's cache of the other collection, and possibly a consolidated
\* file left by an earlier run.
InitialStore(c, year, month, first, missing, extra, out) ==
    LET days == { day \in first..DaysInMonth(year, month) : day # missing }
        other == CHOOSE o \in Collections : o # c
        entries == { <<LinkPath(c, year, month, day), DayContent(day)>> : day \in days }
                     \cup (IF extra THEN {<<ExtraPath(c, year, month), PyList(<<>>)>>} ELSE {})
                     \cup {<<LinkPath(other, year, month, 1), DayContent(1)>>}
                     \cup (IF out THEN {<<ParquetPath(Version, c, year, month),
                                          [t |-> "parquet", v |-> <<>>]>>}
                           ELSE {})
    IN [path \in { e[1] : e \in entries } |-> (CHOOSE e \in entries : e[1] = path)[2]]

-----------------------------------------------------------------------------
\* links.py: cache_daily_stac_json_links

\* Lines 93-98
DailyOutPath ==
    LinkPath(cache_collection, cache_date.year, cache_date.month, cache_date.day)

\* What collect_stac_json_links can end in: an exception of the query, or
\* the list of the links extracted from its results.
DailyParseResults == { UrlParse(UrlNoTile), UrlParse(UrlTile) }

QueryOutcomes ==
    { [exc |-> "QueryError", links |-> <<>>] }
      \cup { [exc |-> "", links |-> ls] : ls \in SeqsUpTo(DailyParseResults, MaxDailyLinks) }

\* obstore.put_async: the object at the path is created or replaced.
Put(st, path, content) ==
    [q \in DOMAIN st \cup {path} |-> IF q = path THEN content ELSE st[q]]

RECURSIVE PutAll(_, _)
PutAll(st, puts) ==
    IF puts = <<>> THEN st
    ELSE PutAll(Put(st, Head(puts).path, Head(puts).content), Tail(puts))

\* A writer that puts nothing for an empty list.
PutsUnlessEmpty(links, path) ==
    IF links = <<>> THEN <<>>
    ELSE << [path |-> path, content |-> PyList([i \in DOMAIN links |-> GetUrl(links[i])])] >>

\* write_stac_links: one put of the JSON array of the links' URL strings.
WriteStacLinks(links, path) ==
    << [path |-> path, content |-> PyList([i \in DOMAIN links |-> GetUrl(links[i])])] >>

\* The number of the running call.
CallNo == Len(cache_history) + 1

\* Lines 92-103: the output path and the skip of an existing object.
DailyStart ==
    /\ dpc = "start"
    /\ IF cache_skip_existing /\ CheckExists(cache_store, DailyOutPath)
       THEN /\ dpc' = "skipped"
            /\ cache_history' = Append(cache_history,
                                       [outcome |-> "skipped", store |-> cache_store,
                                        links |-> cache_links])
       ELSE /\ dpc' = "query"
            /\ UNCHANGED cache_history
    /\ UNCHANGED <<cache_collection, cache_date, cache_skip_existing, cache_store,
                   cache_links, cache_queries, cache_puts>>

\* Lines 105-113: the query of the day; its exception leaves the call.
DailyQuery ==
    /\ dpc = "query"
    /\ cache_queries' = Append(cache_queries,
                               [call |-> CallNo, collection |-> cache_collection,
                                date |-> cache_date])
    /\ \E out \in QueryOutcomes :
          IF out.exc # ""
          THEN /\ dpc' = "raised"
               /\ cache_history' = Append(cache_history,
                                          [outcome |-> "raised", store |-> cache_store,
                                           links |-> cache_links])
               /\ UNCHANGED cache_links
          ELSE /\ dpc' = "put"
               /\ cache_links' = PyList(out.links)
               /\ UNCHANGED cache_history
    /\ UNCHANGED <<cache_collection, cache_date, cache_skip_existing, cache_store,
                   cache_puts>>

\* Lines 115-119: write_stac_links.
DailyPut ==
    /\ dpc = "put"
    /\ LET puts == WriteStacLinks(cache_links.v, DailyOutPath) IN
         /\ cache_store' = PutAll(cache_store, puts)
         /\ cache_puts' = cache_puts \o
                            [k \in DOMAIN puts |->
                               [call |-> CallNo, path |-> puts[k].path,
                                content |-> puts[k].content]]
    /\ dpc' = "done"
    /\ cache_history' = Append(cache_history,
                               [outcome |-> "done", store |-> cache_store',
                                links |-> cache_links])
    /\ UNCHANGED <<cache_collection, cache_date, cache_skip_existing, cache_links,
                   cache_queries>>

\* The caller calls again with the same arguments.
DailyCallAgain ==
    /\ dpc \in {"done", "skipped", "raised"}
    /\ Len(cache_history) < MaxCalls
    /\ dpc' = "start"
    /\ cache_links' = PyNone
    /\ UNCHANGED <<cache_collection, cache_date, cache_skip_existing, cache_store,
                   cache_queries, cache_puts, cache_history>>

DailyIdle ==
    /\ cache_links = PyNone
    /\ cache_queries = <<>>
    /\ cache_puts = <<>>
    /\ cache_history = <<>>

DailyNotCalled ==
    /\ dpc = "idle"
    /\ cache_collection = "HLSL30"
    /\ cache_date = [year |-> FirstYear, month |-> 1, day |-> 1]
    /\ cache_skip_existing = FALSE
    /\ cache_store = <<>>
    /\ DailyIdle

\* The dates of the calls of the model.
DailyDates == { [year |-> 2013, month |-> 4, day |-> 11],
                [year |-> 2016, month |-> 2, day |-> 29] }

-----------------------------------------------------------------------------
\* write.py: hilbert_sort_key and list.sort applied to a list of URLs

\* Line 219: the key function is called for each element; an exception of
\* a call leaves the sort, otherwise the list is sorted by the keys.
SortApply ==
    /\ spc = "start"
    /\ sort_keys' = [i \in DOMAIN sort_input |-> HilbertSortKeyResult(sort_input[i])]
    /\ IF \E i \in DOMAIN sort_input : sort_keys'[i].exc # ""
       THEN /\ spc' = "raised"
            /\ UNCHANGED sort_output
       ELSE /\ spc' = "sorted"
            /\ sort_output' = SortByKey(sort_input)
    /\ UNCHANGED <<sort_input, probe, probe_index>>

\* Lines 76-84 for one position.
ProbeApply ==
    /\ spc = "probe"
    /\ probe_index' = LatLonToHilbertIndex(probe.lat, probe.lon)
    /\ spc' = "probed"
    /\ UNCHANGED <<sort_input, sort_keys, sort_output, probe>>

SortIdle ==
    /\ sort_keys = <<>>
    /\ sort_output = <<>>
    /\ probe_index = -1

SortNotCalled ==
    /\ spc = "idle"
    /\ sort_input = <<>>
    /\ probe = [lat |-> 0, lon |-> 0]
    /\ SortIdle

\* The URLs the lists are drawn from: two with the tile 60WWV, one with
\* 15TVM, one whose tile the converter rejects, two without the pattern.
SortUrls ==
    { UrlTile,
      Url("https", "hostA", <<"/", "HLS.L30", ".T", "60WWV", ".", "2025276", "_", "stac.json">>),
      Url("https", "hostA", <<"/", "HLS.S30", ".T", "15TVM", ".", "2025275", "_", "stac.json">>),
      Url("https", "hostA", <<"/", "HLS.S30", ".T", "00ABC", ".", "2025275", "_", "stac.json">>),
      UrlNoTile,
      Url("https", "hostA", <<"/", "b_", "stac.json">>) }

\* The positions probed, in hundredths of a degree: the ends of the ranges
\* of latitude and longitude and positions inside.
ProbeLats == {-9000, -1, 0, 4605, 8999, 9000}
ProbeLons == {-18000, -9429, 0, 17700, 17999, 18000}

-----------------------------------------------------------------------------
\* constants.py: the path and the listing prefix of two keys

\* links.py 93-98 and write.py 152-159: the formats applied to the keys.
PathFormat ==
    /\ ppc = "start"
    /\ path_a' = LinkPath(key_a.collection, key_a.year, key_a.month, key_a.day)
    /\ path_b' = LinkPath(key_b.collection, key_b.year, key_b.month, key_b.day)
    /\ prefix_a' = LinkPathPrefix(key_a.collection, key_a.year, key_a.month)
    /\ ppc' = "done"
    /\ UNCHANGED <<key_a, key_b>>

PathIdle ==
    /\ path_a = <<>>
    /\ path_b = <<>>
    /\ prefix_a = <<>>

\* The keys of the model: both collections, the first and the last year,
\* months and days of one and of two digits that share digits.
PathMonths == {1, 2, 10, 11, 12}
PathDays == {1, 2, 10, 11, 12, 21, 31}
PathKeys == [collection : Collections, year : {FirstYear, LastYear},
             month : PathMonths, day : PathDays]

PathNotCalled ==
    /\ ppc = "idle"
    /\ key_a = [collection |-> "HLSL30", year |-> FirstYear, month |-> 1, day |-> 1]
    /\ key_b = key_a
    /\ PathIdle

-----------------------------------------------------------------------------
\* handler.py

\* The SQS records of the model: a message id and what the record holds.
\*   ok              a body with an SNS message naming a collection and a date
\*   no_body         no "body" field
\*   bad_json        a body that is not JSON
\*   body_number     a body that is the JSON number 5
\*   bad_collection  a message whose collection is not a member of the enum
\*   bad_date        a message whose date is not in ISO format
RecordKinds == {"ok", "no_body", "bad_json", "bad_collection"}
MessageIds == {"m1", "m2"}
SqsRecords == [messageId : MessageIds, kind : RecordKinds \cup {"body_number", "bad_date"}]
BatchRecords == [messageId : MessageIds, kind : RecordKinds]

\* What asyncio.run(cache_daily_stac_json_links(...)) can end in: "" for a
\* return, or the exception of the query or of the store.
CacheOutcomes == {"", "HTTPStatusError"}

\* process_record, lines 33-127: the exception it raises, "" when it
\* returns; `cached` is the outcome of the cache call when it gets there.
ProcessRecord(record, cached) ==
    CASE record.kind = "no_body" -> "ValueError"
      [] record.kind = "bad_json" -> "JSONDecodeError"
      [] record.kind = "body_number" -> "TypeError"
      [] record.kind = "bad_collection" -> "ValueError"
      [] record.kind = "bad_date" -> "ValueError"
      [] OTHER -> cached

\* Line 174: `except Exception`; every exception of process_record above
\* is one.
HandlerExcept(exc) == exc # ""

\* A loop that gives up on the records after a failed one.
StopAfterFailure(idx, failed, n) == IF failed THEN n + 1 ELSE idx + 1

\* Line 162: the loop goes on to the next record, failed or not.
NextRecord(idx, failed, n) == idx + 1

\* Lines 153-159
HandlerStart ==
    /\ hpc = "start"
    /\ IF ~event.has_records
       THEN hpc' = "raised"
       ELSE hpc' = "loop"
    /\ hidx' = 1
    /\ batch_item_failures' = <<>>
    /\ UNCHANGED <<event, processed, response>>

\* Lines 162-180: one record.
HandlerRecord ==
    /\ hpc = "loop"
    /\ hidx <= Len(event.Records)
    /\ LET record == event.Records[hidx]
           message_id == record.messageId
       IN \E cached \in CacheOutcomes :
            LET exc == ProcessRecord(record, cached) IN
            /\ processed' = Append(processed, [idx |-> hidx, exc |-> exc])
            /\ IF exc = ""
               THEN /\ hidx' = NextRecord(hidx, FALSE, Len(event.Records))
                    /\ UNCHANGED <<hpc, batch_item_failures>>
               ELSE IF HandlerExcept(exc)
               THEN /\ batch_item_failures' =
                          Append(batch_item_failures, [itemIdentifier |-> message_id])
                    /\ hidx' = NextRecord(hidx, TRUE, Len(event.Records))
                    /\ UNCHANGED hpc
               ELSE /\ hpc' = "raised"
                    /\ UNCHANGED <<hidx, batch_item_failures>>
    /\ UNCHANGED <<event, response>>

\* Lines 185-190
HandlerReturn ==
    /\ hpc = "loop"
    /\ hidx > Len(event.Records)
    /\ response' = [batchItemFailures |-> batch_item_failures]
    /\ hpc' = "returned"
    /\ UNCHANGED <<event, hidx, batch_item_failures, processed>>

HandlerIdle ==
    /\ hidx = 0
    /\ batch_item_failures = <<>>
    /\ processed = <<>>
    /\ response = PyNone

HandlerNotCalled ==
    /\ hpc = "idle"
    /\ event = [has_records |-> FALSE, Records |-> <<>>]
    /\ HandlerIdle

-----------------------------------------------------------------------------
\* infrastructure/lambda/batch_publisher.py: handler.  One SNS message per day
\* of a date range.  A datetime is [year, month, day, second] with `second`
\* the time of day.

MaxPublishDays == 3      \* bound on the days after the first of a range

\* datetime.fromisoformat of a YYYY-MM-DD string: midnight of that day
FromIsoDate(date) ==
    [year |-> date.year, month |-> date.month, day |-> date.day, second |-> 0]

\* datetime + timedelta(days=k)
PlusDays(dt, k) ==
    LET date == FromOrdinal(ToOrdinal(dt) + k)
    IN [year |-> date.year, month |-> date.month, day |-> date.day,
        second |-> dt.second]

\* a <= b on datetimes
DatetimeLe(a, b) ==
    \/ ToOrdinal(a) < ToOrdinal(b)
    \/ ToOrdinal(a) = ToOrdinal(b) /\ a.second <= b.second

\* (a - b).days: timedelta normalises to 0 <= seconds < 86400
TimedeltaDays(a, b) ==
    ToOrdinal(a) - ToOrdinal(b) - (IF a.second < b.second THEN 1 ELSE 0)

\* datetime.date().isoformat()
IsoFormat(dt) ==
    FormatInt(dt.year) \o <<"-">> \o Format02d(dt.month) \o <<"-">> \o Format02d(dt.day)

\* the collections an event may name: the two known, a missing one and an
\* unknown one
PublisherCollections == Collections \cup {"", "HLSX"}

\* the days the events of the model name: the days from each collection's
\* origin and the days around the end of February of a leap year
PublisherDates ==
    { FromOrdinal(ToOrdinal(base) + k) :
        base \in { OriginDate(c) : c \in Collections }
                   \cup {[year |-> 2016, month |-> 2, day |-> 27]},
        k \in 0..(MaxPublishDays + 1) }

\* the times of day of datetime.now(): midnight and noon
PublisherSeconds == {0, 43200}

\* lines 62-75
ParseStart(ev) ==
    IF ev.start_date # <<>> THEN FromIsoDate(ev.start_date[1])
    ELSE FromIsoDate(OriginDate(ev.collection))

\* lines 77-88
ParseEnd(ev, n) ==
    IF ev.end_date # <<>> THEN FromIsoDate(ev.end_date[1]) ELSE PlusDays(n, 0 - 1)

\* line 131: while current_date <= end_date
LoopExcludesEnd(cur, end) == ~DatetimeLe(end, cur)

LoopContinues(cur, end) == DatetimeLe(cur, end)

\* lines 132-137: the message of a day
PublisherMessage(c, cur) == [collection |-> c, date |-> IsoFormat(cur)]

\* lines 53-60, 62-94: validation and parsing; lines 120-129
PublisherStart ==
    /\ bpc = "start"
    /\ IF pub_event.collection \notin Collections
       THEN /\ bpc' = "raised"
            /\ pub_exc' = [kind |-> "ValueError", date |-> <<>>]
            /\ UNCHANGED <<start_date, end_date, current_date>>
       ELSE LET s == ParseStart(pub_event)
                e == ParseEnd(pub_event, now)
            IN /\ start_date' = s
               /\ end_date' = e
               /\ IF ~DatetimeLe(s, e)
                  THEN /\ bpc' = "raised"
                       /\ pub_exc' = [kind |-> "ValueError", date |-> <<>>]
                       /\ UNCHANGED current_date
                  ELSE /\ bpc' = "loop"
                       /\ current_date' = s
                       /\ UNCHANGED pub_exc
    /\ UNCHANGED <<pub_event, now, published_messages, sns_messages, pub_response>>

\* lines 131-169: one turn of the loop; sns_client.publish returns a
\* MessageId or raises, and the except clause re-raises
PublisherPublish ==
    /\ bpc = "loop"
    /\ LoopContinues(current_date, end_date)
    /\ \/ /\ sns_messages' =
                Append(sns_messages, PublisherMessage(pub_event.collection, current_date))
          /\ published_messages' =
                Append(published_messages,
                       [date |-> IsoFormat(current_date),
                        message_id |-> Len(sns_messages) + 1])
          /\ current_date' = PlusDays(current_date, 1)
          /\ UNCHANGED <<bpc, pub_exc>>
       \/ /\ bpc' = "raised"
          /\ pub_exc' = [kind |-> "PublishError", date |-> IsoFormat(current_date)]
          /\ UNCHANGED <<sns_messages, published_messages, current_date>>
    /\ UNCHANGED <<pub_event, now, start_date, end_date, pub_response>>

\* lines 171-189
PublisherReturn ==
    /\ bpc = "loop"
    /\ ~LoopContinues(current_date, end_date)
    /\ bpc' = "returned"
    /\ pub_response' =
          [statusCode |-> 200,
           body |-> [collection |-> pub_event.collection,
                     start_date |-> IsoFormat(start_date),
                     end_date |-> IsoFormat(end_date),
                     messages_published |-> Len(published_messages),
                     first_message_id |->
                        IF published_messages # <<>>
                        THEN <<published_messages[1].message_id>> ELSE <<>>,
                     last_message_id |->
                        IF published_messages # <<>>
                        THEN <<published_messages[Len(published_messages)].message_id>>
                        ELSE <<>>]]
    /\ UNCHANGED <<pub_event, now, start_date, end_date, current_date,
                   published_messages, sns_messages, pub_exc>>

PublisherIdle ==
    /\ start_date = PyNone
    /\ end_date = PyNone
    /\ current_date = PyNone
    /\ published_messages = <<>>
    /\ sns_messages = <<>>
    /\ pub_exc = [kind |-> "", date |-> <<>>]
    /\ pub_response = PyNone

PublisherNotCalled ==
    /\ bpc = "idle"
    /\ pub_event = [collection |-> "", start_date |-> <<>>, end_date |-> <<>>]
    /\ now = FromIsoDate(OriginDate("HLSL30"))
    /\ PublisherIdle

-----------------------------------------------------------------------------
\* cmr_api.py: create_hls_query, and validation.py: validate_bbox.

\* the coordinates of the model's boxes: the ends of the ranges, one step
\* outside them, and the corners of the box of the tests
BboxLons == {0 - 181, 0 - 180, 0 - 93, 0 - 92, 180, 181}

BboxLats == {0 - 91, 0 - 90, 46, 47, 90, 91}

\* validation.py:20-40: the box, or the ValueError of the first failed check
ValidateBbox(bbox) ==
    LET min_lon == bbox[1]
        min_lat == bbox[2]
        max_lon == bbox[3]
        max_lat == bbox[4]
    IN IF ~(0 - 180 <= min_lon /\ min_lon <= 180) THEN [exc |-> "ValueError", value |-> <<>>]
       ELSE IF ~(0 - 180 <= max_lon /\ max_lon <= 180)
            THEN [exc |-> "ValueError", value |-> <<>>]
       ELSE IF ~(0 - 90 <= min_lat /\ min_lat <= 90)
            THEN [exc |-> "ValueError", value |-> <<>>]
       ELSE IF ~(0 - 90 <= max_lat /\ max_lat <= 90)
            THEN [exc |-> "ValueError", value |-> <<>>]
       ELSE IF min_lon >= max_lon THEN [exc |-> "ValueError", value |-> <<>>]
       ELSE IF min_lat >= max_lat THEN [exc |-> "ValueError", value |-> <<>>]
       ELSE [exc |-> "", value |-> bbox]

\* cmr_api.py:25-38: the parameters of the query; GranuleQuery.bounding_box
\* stores the four numbers as given
CreateHlsQuery(bbox, temp) ==
    [collection_concept_id |-> <<"C2021957657-LPCLOUD", "C2021957295-LPCLOUD">>,
     bounding_box |-> IF bbox # <<>> THEN bbox ELSE <<>>,
     temporal |-> IF temp # <<>> THEN temp ELSE <<>>,
     format |-> "json"]

\* create_hls_query(bounding_box, temporal)
QueryCreate ==
    /\ qpc = "start"
    /\ query' = CreateHlsQuery(bounding_box, temporal)
    /\ qpc' = "returned"
    /\ UNCHANGED <<bounding_box, temporal, validated>>

\* validate_bbox(bounding_box), which no caller in the package runs
QueryValidate ==
    /\ qpc \in {"start", "returned"}
    /\ bounding_box # <<>>
    /\ validated = PyNone
    /\ validated' = ValidateBbox(bounding_box)
    /\ UNCHANGED <<qpc, bounding_box, temporal, query>>

QueryIdle ==
    /\ query = PyNone
    /\ validated = PyNone

QueryNotCalled ==
    /\ qpc = "idle"
    /\ bounding_box = <<>>
    /\ temporal = <<>>
    /\ QueryIdle

-----------------------------------------------------------------------------
\* api.py: get_summary_stats over the result dicts process_single_day and
\* process_dates_parallel build.  A dict is a record with the keys it has.

MaxResults == 3          \* bound on the length of the list of results

\* dict.get(key, default)
DictGet(r, key, default) == IF key \in DOMAIN r THEN r[key] ELSE default

\* api.py:138-143: the dict of a day whose output file exists
SkippedResult(date) ==
    [date |-> date, skipped |-> TRUE, output_path |-> "out", success |-> TRUE]

\* main.py:33-73 and api.py:160-162: the dict of a day that was written;
\* hls_to_stac_geoparquet raises unless it fetched at least one item
WrittenResult(date, fetched, failed) ==
    [stac_items_fetched |-> fetched, stac_items_failed |-> failed,
     output_path |-> "out", success |-> TRUE, date |-> date, skipped |-> FALSE]

\* api.py:164-170 and 268-275: the dict of a day whose processing raised
FailedResult(date, error) ==
    [date |-> date, error |-> error, success |-> FALSE, skipped |-> FALSE]

ResultDates == {"2024-05-15", "2024-05-16"}

DayResults ==
    { SkippedResult(dt) : dt \in ResultDates }
    \cup { WrittenResult(dt, n, 0) : dt \in ResultDates, n \in {1, 2} }
    \cup { WrittenResult(dt, 1, 1) : dt \in ResultDates }
    \cup { FailedResult(dt, "Network error") : dt \in ResultDates }

\* counting a key only on the days that were not skipped
RECURSIVE CountUnskipped(_, _)
CountUnskipped(rs, key) ==
    IF rs = <<>> THEN 0
    ELSE (IF DictGet(Head(rs), key, FALSE) /\ ~DictGet(Head(rs), "skipped", FALSE)
          THEN 1 ELSE 0)
         + CountUnskipped(Tail(rs), key)

\* sum(1 for r in results if cond(r)), for cond the truth of a key
RECURSIVE CountTrue(_, _)
CountTrue(rs, key) ==
    IF rs = <<>> THEN 0
    ELSE (IF DictGet(Head(rs), key, FALSE) THEN 1 ELSE 0) + CountTrue(Tail(rs), key)

\* api.py:506-508
RECURSIVE TotalItems(_)
TotalItems(rs) ==
    IF rs = <<>> THEN 0
    ELSE (IF DictGet(Head(rs), "success", FALSE)
          THEN DictGet(Head(rs), "stac_items_fetched", 0) ELSE 0)
         + TotalItems(Tail(rs))

\* api.py:510-514
RECURSIVE FailedDays(_)
FailedDays(rs) ==
    IF rs = <<>> THEN <<>>
    ELSE (IF ~DictGet(Head(rs), "success", FALSE) /\ ~DictGet(Head(rs), "skipped", FALSE)
          THEN <<[date |-> Head(rs).date,
                  error |-> DictGet(Head(rs), "error", "Unknown error")]>>
          ELSE <<>>)
         \o FailedDays(Tail(rs))

\* api.py:501-524; success_rate is the fraction <<numerator, denominator>>
GetSummaryStats(rs) ==
    LET total_days == Len(rs)
        successful == CountTrue(rs, "success")
        skipped == CountTrue(rs, "skipped")
        failed == total_days - successful
    IN [total_days |-> total_days,
        successful |-> successful,
        skipped |-> skipped,
        failed |-> failed,
        total_stac_items |-> TotalItems(rs),
        failed_days |-> FailedDays(rs),
        success_rate |-> IF total_days > 0 THEN <<successful, total_days>> ELSE <<0, 1>>]

StatsCall ==
    /\ stats_pc = "start"
    /\ stats' = GetSummaryStats(stats_results)
    /\ stats_pc' = "returned"
    /\ UNCHANGED stats_results

StatsNotCalled ==
    /\ stats_pc = "idle"
    /\ stats_results = <<>>
    /\ stats = PyNone

-----------------------------------------------------------------------------
\* api.py:73-102 and cli.py:71-100 (the same text): generate_date_range and
\* generate_month_dates.

MaxRangeDays == 3        \* bound on the days after 27 February 2016 in the ranges

\* lines 83-88: while current_date <= end_date: append, add a day; the
\* variant stops before the end date
RECURSIVE RangeWithoutEnd(_, _)
RangeWithoutEnd(start, end) ==
    IF DatetimeLe(end, start) THEN <<>>
    ELSE <<start>> \o RangeWithoutEnd(PlusDays(start, 1), end)

RECURSIVE GenerateDateRange(_, _)
GenerateDateRange(start, end) ==
    IF ~DatetimeLe(start, end) THEN <<>>
    ELSE <<start>> \o GenerateDateRange(PlusDays(start, 1), end)

\* lines 101-102: calendar.monthrange(year, month)[1] days, from day 1
GenerateMonthDates(year, month) ==
    [day \in 1..DaysInMonth(year, month) |->
        [year |-> year, month |-> month, day |-> day, second |-> 0]]

\* the ends of the ranges of the model: around the end of 2015 and the end of
\* February 2016, at midnight and at noon
RangeDates ==
    { [year |-> d.year, month |-> d.month, day |-> d.day, second |-> t] :
        d \in { FromOrdinal(ToOrdinal([year |-> 2016, month |-> 2, day |-> 27]) + k) :
                  k \in 0..MaxRangeDays }
              \cup {[year |-> 2015, month |-> 12, day |-> 31],
                    [year |-> 2016, month |-> 1, day |-> 1]},
        t \in {0, 43200} }

\* the years of the months of the model: a leap year, a common year, and the
\* century years 1900 (common) and 2000 (leap)
MonthYears == {1900, 2000, 2015, 2016}

DatesRange ==
    /\ gpc = "start"
    /\ dates_call.fn = "generate_date_range"
    /\ dates' = GenerateDateRange(dates_call.start_date, dates_call.end_date)
    /\ gpc' = "returned"
    /\ UNCHANGED dates_call

DatesMonth ==
    /\ gpc = "start"
    /\ dates_call.fn = "generate_month_dates"
    /\ dates' = GenerateMonthDates(dates_call.year, dates_call.month)
    /\ gpc' = "returned"
    /\ UNCHANGED dates_call

DatesNotCalled ==
    /\ gpc = "idle"
    /\ dates_call = [fn |-> ""]
    /\ dates = PyNone

-----------------------------------------------------------------------------
\* api.py: process_dates_parallel and process_single_day (cli.py holds the
\* same two functions).  One task per date behind a semaphore, gathered with
\* return_exceptions=True.

MaxDays == 3              \* bound on the dates of a call
MaxConcurrentDays == 2    \* bound on max_concurrent_days

\* the dates a call may list, a date may appear twice
ParallelDates ==
    { FromIsoDate([year |-> 2024, month |-> 2, day |-> d]) : d \in {28, 29} }

DateLists == UNION { [1..n -> ParallelDates] : n \in 0..MaxDays }

\* api.py:122: date.strftime("%Y-%m-%d")
DateString(date) == IsoFormat(date)

\* the texts of the exceptions of a day
DayErrors == {"No STAC JSON links found", "Network error"}

\* an exception object, as gather hands it over
ExceptionObject(text) == [exception |-> "OSError", args |-> text]

\* api.py:262: isinstance(result, Exception)
IsExceptionObject(result) == "exception" \in DOMAIN result

\* str(result) of an exception object
StrOf(result) == result.args

NoDayTask == [st |-> "pending", outcome |-> "", result |-> PyNone]

\* a semaphore every task may enter
AcquireWithoutLimit(sem) == sem.made

\* api.py:245: `async with semaphore` proceeds when value > 0
DayCanAcquire(sem) == sem.made /\ sem.value > 0

\* the days inside `async with semaphore`
DaysInProgress == { i \in DOMAIN day_tasks : day_tasks[i].st \in {"entered", "converting"} }

\* api.py:259-277: the loop over the gathered results
RECURSIVE HandleExceptions(_, _, _)
HandleExceptions(gathered, ds, i) ==
    IF i > Len(gathered) THEN <<>>
    ELSE <<IF IsExceptionObject(gathered[i])
           THEN FailedResult(DateString(ds[i]), StrOf(gathered[i]))
           ELSE gathered[i]>>
         \o HandleExceptions(gathered, ds, i + 1)

\* api.py:242-257: the semaphore and one coroutine per date, all started by
\* gather
ParallelCall ==
    /\ par_pc = "start"
    /\ par_pc' = "gather"
    /\ day_semaphore' = [made |-> TRUE, value |-> max_concurrent_days]
    /\ day_tasks' = [i \in DOMAIN par_dates |-> NoDayTask]
    /\ UNCHANGED <<par_dates, max_concurrent_days, par_skip_existing, output_files,
                   day_completed, processed_results>>

\* api.py:245: a task enters `async with semaphore`
DayAcquire(i) ==
    /\ par_pc = "gather"
    /\ i \in DOMAIN day_tasks
    /\ day_tasks[i].st = "pending"
    /\ DayCanAcquire(day_semaphore)
    /\ day_semaphore' = [day_semaphore EXCEPT !.value = @ - 1]
    /\ day_tasks' = [day_tasks EXCEPT ![i].st = "entered"]
    /\ UNCHANGED <<par_pc, par_dates, max_concurrent_days, par_skip_existing,
                   output_files, day_completed, processed_results>>

\* api.py:122-143: process_single_day up to the try.  With skip_existing the
\* existence of the output file is asked: the day is skipped when it exists,
\* and the question itself may raise (outside the try, so the exception
\* leaves the coroutine and the semaphore is released).
DayCheck(i) ==
    /\ par_pc = "gather"
    /\ i \in DOMAIN day_tasks
    /\ day_tasks[i].st = "entered"
    /\ LET ds == DateString(par_dates[i])
       IN \/ /\ par_skip_existing
             /\ ds \in output_files
             /\ day_tasks' = [day_tasks EXCEPT ![i] =
                   [st |-> "done", outcome |-> "skipped", result |-> SkippedResult(ds)]]
             /\ day_semaphore' = [day_semaphore EXCEPT !.value = @ + 1]
             /\ day_completed' = Append(day_completed, i)
          \/ /\ par_skip_existing
             /\ day_tasks' = [day_tasks EXCEPT ![i] =
                   [st |-> "done", outcome |-> "raised",
                    result |-> ExceptionObject("Permission denied")]]
             /\ day_semaphore' = [day_semaphore EXCEPT !.value = @ + 1]
             /\ day_completed' = Append(day_completed, i)
          \/ /\ ~(par_skip_existing /\ ds \in output_files)
             /\ day_tasks' = [day_tasks EXCEPT ![i].st = "converting"]
             /\ UNCHANGED <<day_semaphore, day_completed>>
    /\ UNCHANGED <<par_pc, par_dates, max_concurrent_days, par_skip_existing,
                   output_files, processed_results>>

\* api.py:152-170: hls_to_stac_geoparquet returns the statistics of a file
\* it wrote, or raises and the except clause returns the failure dict;
\* either way the coroutine returns and the semaphore is released.
DayConvert(i) ==
    /\ par_pc = "gather"
    /\ i \in DOMAIN day_tasks
    /\ day_tasks[i].st = "converting"
    /\ LET ds == DateString(par_dates[i])
       IN \/ \E failed \in {0, 1} :
                /\ day_tasks' = [day_tasks EXCEPT ![i] =
                      [st |-> "done", outcome |-> "written",
                       result |-> WrittenResult(ds, 1, failed)]]
                /\ output_files' = output_files \cup {ds}
          \/ \E text \in DayErrors :
                /\ day_tasks' = [day_tasks EXCEPT ![i] =
                      [st |-> "done", outcome |-> "failed",
                       result |-> FailedResult(ds, text)]]
                /\ UNCHANGED output_files
    /\ day_semaphore' = [day_semaphore EXCEPT !.value = @ + 1]
    /\ day_completed' = Append(day_completed, i)
    /\ UNCHANGED <<par_pc, par_dates, max_concurrent_days, par_skip_existing,
                   processed_results>>

\* api.py:257-279: gather(return_exceptions=True) returns when every task is
\* done, the results in the order of the tasks, an exception in the place of
\* the task that raised it; the loop turns the exceptions into dicts.
ParallelReturn ==
    /\ par_pc = "gather"
    /\ \A i \in DOMAIN day_tasks : day_tasks[i].st = "done"
    /\ par_pc' = "returned"
    /\ processed_results' =
          HandleExceptions([i \in DOMAIN day_tasks |-> day_tasks[i].result], par_dates, 1)
    /\ UNCHANGED <<par_dates, max_concurrent_days, par_skip_existing, output_files,
                   day_semaphore, day_tasks, day_completed>>

DaysIdle ==
    /\ day_semaphore = [made |-> FALSE, value |-> 0]
    /\ day_tasks = <<>>
    /\ day_completed = <<>>
    /\ processed_results = PyNone

DaysNotCalled ==
    /\ par_pc = "idle"
    /\ par_dates = <<>>
    /\ max_concurrent_days = 1
    /\ par_skip_existing = TRUE
    /\ output_files = {}
    /\ DaysIdle

-----------------------------------------------------------------------------
\* links.py: cache_daily_stac_json_links invoked twice at once with the same
\* arguments (handler.py: process_record runs it for every delivery of a
\* message).  Each invocation is a process of its own; the store is the one
\* thing they share, and each of head_async and put_async is one step on it.

Invocations == {1, 2}

\* Lines 93-98
InvocationOutPath ==
    LinkPath(inv_collection, inv_date.year, inv_date.month, inv_date.day)

\* Lines 100-103: the existence check of an invocation and its early return
InvocationCheck(p) ==
    /\ inv_pc[p] = "start"
    /\ inv_pc' = [inv_pc EXCEPT ![p] =
                    IF inv_skip_existing /\ CheckExists(shared_store, InvocationOutPath)
                    THEN "skipped" ELSE "query"]
    /\ UNCHANGED <<inv_collection, inv_date, inv_skip_existing, shared_store,
                   inv_links, shared_puts>>

\* Lines 105-113: the query of the day; its exception leaves the invocation
InvocationQuery(p) ==
    /\ inv_pc[p] = "query"
    /\ \E out \in QueryOutcomes :
          IF out.exc # ""
          THEN /\ inv_pc' = [inv_pc EXCEPT ![p] = "raised"]
               /\ UNCHANGED inv_links
          ELSE /\ inv_pc' = [inv_pc EXCEPT ![p] = "put"]
               /\ inv_links' = [inv_links EXCEPT ![p] = PyList(out.links)]
    /\ UNCHANGED <<inv_collection, inv_date, inv_skip_existing, shared_store,
                   shared_puts>>

\* Lines 115-119: write_stac_links
InvocationPut(p) ==
    /\ inv_pc[p] = "put"
    /\ LET puts == WriteStacLinks(inv_links[p].v, InvocationOutPath) IN
         /\ shared_store' = PutAll(shared_store, puts)
         /\ shared_puts' = shared_puts \o
                             [k \in DOMAIN puts |->
                                [call |-> p, path |-> puts[k].path,
                                 content |-> puts[k].content]]
    /\ inv_pc' = [inv_pc EXCEPT ![p] = "done"]
    /\ UNCHANGED <<inv_collection, inv_date, inv_skip_existing, inv_links>>

ConcurrentIdle ==
    /\ inv_links = [p \in Invocations |-> PyNone]
    /\ shared_puts = <<>>

ConcurrentNotCalled ==
    /\ inv_pc = [p \in Invocations |-> "idle"]
    /\ inv_collection = "HLSL30"
    /\ inv_date = [year |-> FirstYear, month |-> 1, day |-> 1]
    /\ inv_skip_existing = FALSE
    /\ shared_store = <<>>
    /\ ConcurrentIdle

-----------------------------------------------------------------------------
\* The specifications: one per entry point, the other components idle.

FetchNotCalled ==
    /\ fpc = "idle"
    /\ stac_links = <<>>
    /\ max_concurrent = 0
    /\ FetchIdle

InitFetch ==
    /\ fpc = "call"
    /\ stac_links \in SeqsUpTo(ParseResults, MaxLinks)
    /\ max_concurrent \in 1..MaxConcurrent
    /\ FetchIdle
    /\ CmrNotCalled
    /\ ExtractNotCalled
    /\ MonthlyNotCalled
    /\ DailyNotCalled
    /\ SortNotCalled
    /\ PathNotCalled
    /\ HandlerNotCalled
    /\ PublisherNotCalled
    /\ QueryNotCalled
    /\ StatsNotCalled
    /\ DatesNotCalled
    /\ DaysNotCalled
    /\ ConcurrentNotCalled

NextFetch ==
    \/ FetchCall
          /\ UNCHANGED <<cmrVars, extractVars, monthlyVars, dailyVars, sortVars,
                        pathVars, handlerVars, publisherVars, queryVars, statsVars,
                        datesVars, daysVars, concurrentVars>>
    \/ \E i \in DOMAIN tasks : TaskAcquire(i)
          /\ UNCHANGED <<cmrVars, extractVars, monthlyVars, dailyVars, sortVars,
                        pathVars, handlerVars, publisherVars, queryVars, statsVars,
                        datesVars, daysVars, concurrentVars>>
    \/ \E i \in DOMAIN tasks : TaskFinish(i)
          /\ UNCHANGED <<cmrVars, extractVars, monthlyVars, dailyVars, sortVars,
                        pathVars, handlerVars, publisherVars, queryVars, statsVars,
                        datesVars, daysVars, concurrentVars>>
    \/ GatherEnd
          /\ UNCHANGED <<cmrVars, extractVars, monthlyVars, dailyVars, sortVars,
                        pathVars, handlerVars, publisherVars, queryVars, statsVars,
                        datesVars, daysVars, concurrentVars>>

SpecFetch == InitFetch /\ [][NextFetch]_vars

\* The scheduling of the event loop: a coroutine that can run is run, a task
\* waiting on the semaphore is woken when a permit is free, and every fetch
\* that was started completes or fails.
FetchFairness ==
    /\ WF_fetchVars(FetchCall)
    /\ \A i \in 1..MaxLinks : WF_fetchVars(TaskAcquire(i))
    /\ \A i \in 1..MaxLinks : WF_fetchVars(TaskFinish(i))
    /\ WF_fetchVars(GatherEnd)

SpecFetchFair == InitFetch /\ [][NextFetch]_vars /\ FetchFairness

InitCmr ==
    /\ cpc = "request"
    /\ CmrIdle
    /\ FetchNotCalled
    /\ ExtractNotCalled
    /\ MonthlyNotCalled
    /\ DailyNotCalled
    /\ SortNotCalled
    /\ PathNotCalled
    /\ HandlerNotCalled
    /\ PublisherNotCalled
    /\ QueryNotCalled
    /\ StatsNotCalled
    /\ DatesNotCalled
    /\ DaysNotCalled
    /\ ConcurrentNotCalled

NextCmr ==
    \/ CmrRequest
          /\ UNCHANGED <<fetchVars, extractVars, monthlyVars, dailyVars, sortVars,
                        pathVars, handlerVars, publisherVars, queryVars, statsVars,
                        datesVars, daysVars, concurrentVars>>
    \/ CmrResponse
          /\ UNCHANGED <<fetchVars, extractVars, monthlyVars, dailyVars, sortVars,
                        pathVars, handlerVars, publisherVars, queryVars, statsVars,
                        datesVars, daysVars, concurrentVars>>
    \/ CmrYield
          /\ UNCHANGED <<fetchVars, extractVars, monthlyVars, dailyVars, sortVars,
                        pathVars, handlerVars, publisherVars, queryVars, statsVars,
                        datesVars, daysVars, concurrentVars>>
    \/ CmrCursor
          /\ UNCHANGED <<fetchVars, extractVars, monthlyVars, dailyVars, sortVars,
                        pathVars, handlerVars, publisherVars, queryVars, statsVars,
                        datesVars, daysVars, concurrentVars>>

SpecCmr == InitCmr /\ [][NextCmr]_vars

InitExtract ==
    /\ epc = "loop"
    /\ cmr_results \in SeqsUpTo(ResultRecords, MaxRecords)
    /\ prefix \in {<<"https">>, <<"s3">>}
    /\ ExtractIdle
    /\ FetchNotCalled
    /\ CmrNotCalled
    /\ MonthlyNotCalled
    /\ DailyNotCalled
    /\ SortNotCalled
    /\ PathNotCalled
    /\ HandlerNotCalled
    /\ PublisherNotCalled
    /\ QueryNotCalled
    /\ StatsNotCalled
    /\ DatesNotCalled
    /\ DaysNotCalled
    /\ ConcurrentNotCalled

NextExtract ==
    \/ ExtractRecord
          /\ UNCHANGED <<fetchVars, cmrVars, monthlyVars, dailyVars, sortVars, pathVars,
                        handlerVars, publisherVars, queryVars, statsVars, datesVars,
                        daysVars, concurrentVars>>
    \/ ExtractReturn
          /\ UNCHANGED <<fetchVars, cmrVars, monthlyVars, dailyVars, sortVars, pathVars,
                        handlerVars, publisherVars, queryVars, statsVars, datesVars,
                        daysVars, concurrentVars>>

SpecExtract == InitExtract /\ [][NextExtract]_vars

InitMonthly ==
    /\ mpc = "start"
    /\ collection \in Collections
    /\ yearmonth \in [year : FirstYear..LastYear, month : 1..12]
    /\ require_complete_links \in BOOLEAN
    /\ skip_existing \in BOOLEAN
    /\ \E first \in FirstCachedDays(collection), missing \in MissingDays, extra \in BOOLEAN, out \in BOOLEAN :
          store = InitialStore(collection, yearmonth.year, yearmonth.month,
                               first, missing, extra, out)
    /\ store0 = store
    /\ MonthlyIdle
    /\ FetchNotCalled
    /\ CmrNotCalled
    /\ ExtractNotCalled
    /\ DailyNotCalled
    /\ SortNotCalled
    /\ PathNotCalled
    /\ HandlerNotCalled
    /\ PublisherNotCalled
    /\ QueryNotCalled
    /\ StatsNotCalled
    /\ DatesNotCalled
    /\ DaysNotCalled
    /\ ConcurrentNotCalled

NextMonthly ==
    \/ MonthlyStart
          /\ UNCHANGED <<fetchVars, cmrVars, extractVars, dailyVars, sortVars, pathVars,
                        handlerVars, publisherVars, queryVars, statsVars, datesVars,
                        daysVars, concurrentVars>>
    \/ MonthlyList
          /\ UNCHANGED <<fetchVars, cmrVars, extractVars, dailyVars, sortVars, pathVars,
                        handlerVars, publisherVars, queryVars, statsVars, datesVars,
                        daysVars, concurrentVars>>
    \/ MonthlyValidate
          /\ UNCHANGED <<fetchVars, cmrVars, extractVars, dailyVars, sortVars, pathVars,
                        handlerVars, publisherVars, queryVars, statsVars, datesVars,
                        daysVars, concurrentVars>>
    \/ MonthlySort
          /\ UNCHANGED <<fetchVars, cmrVars, extractVars, dailyVars, sortVars, pathVars,
                        handlerVars, publisherVars, queryVars, statsVars, datesVars,
                        daysVars, concurrentVars>>
    \/ MonthlyFetchCall
          /\ UNCHANGED <<cmrVars, extractVars, dailyVars, sortVars, pathVars,
                        handlerVars, publisherVars, queryVars, statsVars, datesVars,
                        daysVars, concurrentVars>>
    \/ FetchCall
          /\ UNCHANGED <<cmrVars, extractVars, monthlyVars, dailyVars, sortVars,
                        pathVars, handlerVars, publisherVars, queryVars, statsVars,
                        datesVars, daysVars, concurrentVars>>
    \/ \E i \in DOMAIN tasks : TaskAcquire(i)
          /\ UNCHANGED <<cmrVars, extractVars, monthlyVars, dailyVars, sortVars,
                        pathVars, handlerVars, publisherVars, queryVars, statsVars,
                        datesVars, daysVars, concurrentVars>>
    \/ \E i \in DOMAIN tasks : TaskFinish(i)
          /\ UNCHANGED <<cmrVars, extractVars, monthlyVars, dailyVars, sortVars,
                        pathVars, handlerVars, publisherVars, queryVars, statsVars,
                        datesVars, daysVars, concurrentVars>>
    \/ GatherEnd
          /\ UNCHANGED <<cmrVars, extractVars, monthlyVars, dailyVars, sortVars,
                        pathVars, handlerVars, publisherVars, queryVars, statsVars,
                        datesVars, daysVars, concurrentVars>>
    \/ MonthlyFetchReturn
          /\ UNCHANGED <<fetchVars, cmrVars, extractVars, dailyVars, sortVars, pathVars,
                        handlerVars, publisherVars, queryVars, statsVars, datesVars,
                        daysVars, concurrentVars>>
    \/ MonthlyWrite
          /\ UNCHANGED <<fetchVars, cmrVars, extractVars, dailyVars, sortVars, pathVars,
                        handlerVars, publisherVars, queryVars, statsVars, datesVars,
                        daysVars, concurrentVars>>

SpecMonthly == InitMonthly /\ [][NextMonthly]_vars


InitDaily ==
    /\ dpc = "start"
    /\ cache_collection \in Collections
    /\ cache_date \in DailyDates
    /\ cache_skip_existing \in BOOLEAN
    /\ \E pre \in BOOLEAN :
          cache_store = IF pre THEN PutAll(<<>>, WriteStacLinks(<<UrlParse(UrlNoTile)>>,
                                                              DailyOutPath))
                        ELSE <<>>
    /\ DailyIdle
    /\ FetchNotCalled
    /\ CmrNotCalled
    /\ ExtractNotCalled
    /\ MonthlyNotCalled
    /\ SortNotCalled
    /\ PathNotCalled
    /\ HandlerNotCalled
    /\ PublisherNotCalled
    /\ QueryNotCalled
    /\ StatsNotCalled
    /\ DatesNotCalled
    /\ DaysNotCalled
    /\ ConcurrentNotCalled

NextDaily ==
    \/ DailyStart
          /\ UNCHANGED <<fetchVars, cmrVars, extractVars, monthlyVars, sortVars,
                        pathVars, handlerVars, publisherVars, queryVars, statsVars,
                        datesVars, daysVars, concurrentVars>>
    \/ DailyQuery
          /\ UNCHANGED <<fetchVars, cmrVars, extractVars, monthlyVars, sortVars,
                        pathVars, handlerVars, publisherVars, queryVars, statsVars,
                        datesVars, daysVars, concurrentVars>>
    \/ DailyPut
          /\ UNCHANGED <<fetchVars, cmrVars, extractVars, monthlyVars, sortVars,
                        pathVars, handlerVars, publisherVars, queryVars, statsVars,
                        datesVars, daysVars, concurrentVars>>
    \/ DailyCallAgain
          /\ UNCHANGED <<fetchVars, cmrVars, extractVars, monthlyVars, sortVars,
                        pathVars, handlerVars, publisherVars, queryVars, statsVars,
                        datesVars, daysVars, concurrentVars>>

SpecDaily == InitDaily /\ [][NextDaily]_vars

InitSort ==
    /\ \/ /\ spc = "start"
          /\ sort_input \in SeqsUpTo(SortUrls, MaxSortLen)
          /\ probe = [lat |-> 0, lon |-> 0]
       \/ /\ spc = "probe"
          /\ sort_input = <<>>
          /\ probe \in [lat : ProbeLats, lon : ProbeLons]
    /\ SortIdle
    /\ FetchNotCalled
    /\ CmrNotCalled
    /\ ExtractNotCalled
    /\ MonthlyNotCalled
    /\ DailyNotCalled
    /\ PathNotCalled
    /\ HandlerNotCalled
    /\ PublisherNotCalled
    /\ QueryNotCalled
    /\ StatsNotCalled
    /\ DatesNotCalled
    /\ DaysNotCalled
    /\ ConcurrentNotCalled

NextSort ==
    \/ SortApply
          /\ UNCHANGED <<fetchVars, cmrVars, extractVars, monthlyVars, dailyVars,
                        pathVars, handlerVars, publisherVars, queryVars, statsVars,
                        datesVars, daysVars, concurrentVars>>
    \/ ProbeApply
          /\ UNCHANGED <<fetchVars, cmrVars, extractVars, monthlyVars, dailyVars,
                        pathVars, handlerVars, publisherVars, queryVars, statsVars,
                        datesVars, daysVars, concurrentVars>>

SpecSort == InitSort /\ [][NextSort]_vars

InitPath ==
    /\ ppc = "start"
    /\ key_a \in PathKeys
    /\ key_b \in PathKeys
    /\ PathIdle
    /\ FetchNotCalled
    /\ CmrNotCalled
    /\ ExtractNotCalled
    /\ MonthlyNotCalled
    /\ DailyNotCalled
    /\ SortNotCalled
    /\ HandlerNotCalled
    /\ PublisherNotCalled
    /\ QueryNotCalled
    /\ StatsNotCalled
    /\ DatesNotCalled
    /\ DaysNotCalled
    /\ ConcurrentNotCalled

NextPath ==
    \/ PathFormat
          /\ UNCHANGED <<fetchVars, cmrVars, extractVars, monthlyVars, dailyVars,
                        sortVars, handlerVars, publisherVars, queryVars, statsVars,
                        datesVars, daysVars, concurrentVars>>

SpecPath == InitPath /\ [][NextPath]_vars

InitHandler ==
    /\ hpc = "start"
    /\ \/ event = [has_records |-> FALSE, Records |-> <<>>]
       \/ \E rs \in SeqsUpTo(BatchRecords, MaxBatch) :
             event = [has_records |-> TRUE, Records |-> rs]
       \/ \E r \in SqsRecords : event = [has_records |-> TRUE, Records |-> <<r>>]
    /\ HandlerIdle
    /\ FetchNotCalled
    /\ CmrNotCalled
    /\ ExtractNotCalled
    /\ MonthlyNotCalled
    /\ DailyNotCalled
    /\ SortNotCalled
    /\ PathNotCalled
    /\ PublisherNotCalled
    /\ QueryNotCalled
    /\ StatsNotCalled
    /\ DatesNotCalled
    /\ DaysNotCalled
    /\ ConcurrentNotCalled

NextHandler ==
    \/ HandlerStart
          /\ UNCHANGED <<fetchVars, cmrVars, extractVars, monthlyVars, dailyVars,
                        sortVars, pathVars, publisherVars, queryVars, statsVars,
                        datesVars, daysVars, concurrentVars>>
    \/ HandlerRecord
          /\ UNCHANGED <<fetchVars, cmrVars, extractVars, monthlyVars, dailyVars,
                        sortVars, pathVars, publisherVars, queryVars, statsVars,
                        datesVars, daysVars, concurrentVars>>
    \/ HandlerReturn
          /\ UNCHANGED <<fetchVars, cmrVars, extractVars, monthlyVars, dailyVars,
                        sortVars, pathVars, publisherVars, queryVars, statsVars,
                        datesVars, daysVars, concurrentVars>>

SpecHandler == InitHandler /\ [][NextHandler]_vars

InitPublisher ==
    /\ bpc = "start"
    /\ \E c \in PublisherCollections,
          s \in { <<>> } \cup { <<x>> : x \in PublisherDates },
          e \in { <<>> } \cup { <<x>> : x \in PublisherDates } :
          pub_event = [collection |-> c, start_date |-> s, end_date |-> e]
    /\ \E x \in PublisherDates, t \in PublisherSeconds :
          now = [FromIsoDate(x) EXCEPT !.second = t]
    /\ pub_event.collection \in Collections =>
          TimedeltaDays(ParseEnd(pub_event, now), ParseStart(pub_event)) <= MaxPublishDays
    /\ PublisherIdle
    /\ FetchNotCalled
    /\ CmrNotCalled
    /\ ExtractNotCalled
    /\ MonthlyNotCalled
    /\ DailyNotCalled
    /\ SortNotCalled
    /\ PathNotCalled
    /\ HandlerNotCalled
    /\ QueryNotCalled
    /\ StatsNotCalled
    /\ DatesNotCalled
    /\ DaysNotCalled
    /\ ConcurrentNotCalled

NextPublisher ==
    \/ PublisherStart
          /\ UNCHANGED <<fetchVars, cmrVars, extractVars, monthlyVars, dailyVars,
                        sortVars, pathVars, handlerVars, queryVars, statsVars,
                        datesVars, daysVars, concurrentVars>>
    \/ PublisherPublish
          /\ UNCHANGED <<fetchVars, cmrVars, extractVars, monthlyVars, dailyVars,
                        sortVars, pathVars, handlerVars, queryVars, statsVars,
                        datesVars, daysVars, concurrentVars>>
    \/ PublisherReturn
          /\ UNCHANGED <<fetchVars, cmrVars, extractVars, monthlyVars, dailyVars,
                        sortVars, pathVars, handlerVars, queryVars, statsVars,
                        datesVars, daysVars, concurrentVars>>

SpecPublisher == InitPublisher /\ [][NextPublisher]_vars

InitQuery ==
    /\ qpc = "start"
    /\ \/ bounding_box = <<>>
       \/ \E w, e \in BboxLons, s, n \in BboxLats : bounding_box = <<w, s, e, n>>
    /\ temporal \in {<<>>, <<"2024-01-01T00:00:00Z", "2024-01-01T23:59:59Z">>}
    /\ QueryIdle
    /\ FetchNotCalled
    /\ CmrNotCalled
    /\ ExtractNotCalled
    /\ MonthlyNotCalled
    /\ DailyNotCalled
    /\ SortNotCalled
    /\ PathNotCalled
    /\ HandlerNotCalled
    /\ PublisherNotCalled
    /\ StatsNotCalled
    /\ DatesNotCalled
    /\ DaysNotCalled
    /\ ConcurrentNotCalled

NextQuery ==
    \/ QueryCreate
          /\ UNCHANGED <<fetchVars, cmrVars, extractVars, monthlyVars, dailyVars,
                        sortVars, pathVars, handlerVars, publisherVars, statsVars,
                        datesVars, daysVars, concurrentVars>>
    \/ QueryValidate
          /\ UNCHANGED <<fetchVars, cmrVars, extractVars, monthlyVars, dailyVars,
                        sortVars, pathVars, handlerVars, publisherVars, statsVars,
                        datesVars, daysVars, concurrentVars>>

SpecQuery == InitQuery /\ [][NextQuery]_vars

InitStats ==
    /\ stats_pc = "start"
    /\ stats_results \in SeqsUpTo(DayResults, MaxResults)
    /\ stats = PyNone
    /\ FetchNotCalled
    /\ CmrNotCalled
    /\ ExtractNotCalled
    /\ MonthlyNotCalled
    /\ DailyNotCalled
    /\ SortNotCalled
    /\ PathNotCalled
    /\ HandlerNotCalled
    /\ PublisherNotCalled
    /\ QueryNotCalled
    /\ DatesNotCalled
    /\ DaysNotCalled
    /\ ConcurrentNotCalled

NextStats ==
    \/ StatsCall
          /\ UNCHANGED <<fetchVars, cmrVars, extractVars, monthlyVars, dailyVars,
                        sortVars, pathVars, handlerVars, publisherVars, queryVars,
                        datesVars, daysVars, concurrentVars>>

SpecStats == InitStats /\ [][NextStats]_vars

InitDates ==
    /\ gpc = "start"
    /\ \/ \E s, e \in RangeDates :
             dates_call = [fn |-> "generate_date_range", start_date |-> s, end_date |-> e]
       \/ \E y \in MonthYears, m \in 1..12 :
             dates_call = [fn |-> "generate_month_dates", year |-> y, month |-> m]
    /\ dates = PyNone
    /\ FetchNotCalled
    /\ CmrNotCalled
    /\ ExtractNotCalled
    /\ MonthlyNotCalled
    /\ DailyNotCalled
    /\ SortNotCalled
    /\ PathNotCalled
    /\ HandlerNotCalled
    /\ PublisherNotCalled
    /\ QueryNotCalled
    /\ StatsNotCalled
    /\ DaysNotCalled
    /\ ConcurrentNotCalled

NextDates ==
    \/ DatesRange
          /\ UNCHANGED <<fetchVars, cmrVars, extractVars, monthlyVars, dailyVars,
                        sortVars, pathVars, handlerVars, publisherVars, queryVars,
                        statsVars, daysVars, concurrentVars>>
    \/ DatesMonth
          /\ UNCHANGED <<fetchVars, cmrVars, extractVars, monthlyVars, dailyVars,
                        sortVars, pathVars, handlerVars, publisherVars, queryVars,
                        statsVars, daysVars, concurrentVars>>

SpecDates == InitDates /\ [][NextDates]_vars

InitDays ==
    /\ par_pc = "start"
    /\ par_dates \in DateLists
    /\ max_concurrent_days \in 0..MaxConcurrentDays
    /\ par_skip_existing \in BOOLEAN
    /\ output_files \in SUBSET { DateString(d) : d \in ParallelDates }
    /\ DaysIdle
    /\ FetchNotCalled
    /\ CmrNotCalled
    /\ ExtractNotCalled
    /\ MonthlyNotCalled
    /\ DailyNotCalled
    /\ SortNotCalled
    /\ PathNotCalled
    /\ HandlerNotCalled
    /\ PublisherNotCalled
    /\ QueryNotCalled
    /\ StatsNotCalled
    /\ DatesNotCalled
    /\ ConcurrentNotCalled

NextDays ==
    \/ ParallelCall
          /\ UNCHANGED <<fetchVars, cmrVars, extractVars, monthlyVars, dailyVars,
                        sortVars, pathVars, handlerVars, publisherVars, queryVars,
                        statsVars, datesVars, concurrentVars>>
    \/ \E i \in 1..MaxDays : DayAcquire(i)
          /\ UNCHANGED <<fetchVars, cmrVars, extractVars, monthlyVars, dailyVars,
                        sortVars, pathVars, handlerVars, publisherVars, queryVars,
                        statsVars, datesVars, concurrentVars>>
    \/ \E i \in 1..MaxDays : DayCheck(i)
          /\ UNCHANGED <<fetchVars, cmrVars, extractVars, monthlyVars, dailyVars,
                        sortVars, pathVars, handlerVars, publisherVars, queryVars,
                        statsVars, datesVars, concurrentVars>>
    \/ \E i \in 1..MaxDays : DayConvert(i)
          /\ UNCHANGED <<fetchVars, cmrVars, extractVars, monthlyVars, dailyVars,
                        sortVars, pathVars, handlerVars, publisherVars, queryVars,
                        statsVars, datesVars, concurrentVars>>
    \/ ParallelReturn
          /\ UNCHANGED <<fetchVars, cmrVars, extractVars, monthlyVars, dailyVars,
                        sortVars, pathVars, handlerVars, publisherVars, queryVars,
                        statsVars, datesVars, concurrentVars>>

SpecDays == InitDays /\ [][NextDays]_vars

InitConcurrent ==
    /\ inv_pc = [p \in Invocations |-> "start"]
    /\ inv_collection \in Collections
    /\ inv_date \in DailyDates
    /\ inv_skip_existing \in BOOLEAN
    /\ \E pre \in BOOLEAN :
          shared_store = IF pre THEN PutAll(<<>>, WriteStacLinks(<<UrlParse(UrlNoTile)>>,
                                                               InvocationOutPath))
                         ELSE <<>>
    /\ ConcurrentIdle
    /\ FetchNotCalled
    /\ CmrNotCalled
    /\ ExtractNotCalled
    /\ MonthlyNotCalled
    /\ DailyNotCalled
    /\ SortNotCalled
    /\ PathNotCalled
    /\ HandlerNotCalled
    /\ PublisherNotCalled
    /\ QueryNotCalled
    /\ StatsNotCalled
    /\ DatesNotCalled
    /\ DaysNotCalled

NextConcurrent ==
    \/ \E p \in Invocations : InvocationCheck(p)
          /\ UNCHANGED <<fetchVars, cmrVars, extractVars, monthlyVars, dailyVars,
                        sortVars, pathVars, handlerVars, publisherVars, queryVars,
                        statsVars, datesVars, daysVars>>
    \/ \E p \in Invocations : InvocationQuery(p)
          /\ UNCHANGED <<fetchVars, cmrVars, extractVars, monthlyVars, dailyVars,
                        sortVars, pathVars, handlerVars, publisherVars, queryVars,
                        statsVars, datesVars, daysVars>>
    \/ \E p \in Invocations : InvocationPut(p)
          /\ UNCHANGED <<fetchVars, cmrVars, extractVars, monthlyVars, dailyVars,
                        sortVars, pathVars, handlerVars, publisherVars, queryVars,
                        statsVars, datesVars, daysVars>>

SpecConcurrent == InitConcurrent /\ [][NextConcurrent]_vars

-----------------------------------------------------------------------------
\* Properties of fetch_stac_items.

Accounted(i) ==
    Cardinality({ k \in DOMAIN successful_items : successful_items[k].from = i })
      + Cardinality({ k \in DOMAIN failed_links : failed_links[k].from = i })

\* C1: when fetch_stac_items has returned, len(successes) + len(failures)
\* equals the number of links submitted and every link instance is in exactly
\* one of the two lists, whatever each fetch returned or raised; for the empty
\* list nothing (store, semaphore, task) was created.
C1_FetchPartitionsInput ==
    fpc = "returned" =>
        /\ Len(successful_items) + Len(failed_links) = Len(stac_links)
        /\ \A i \in DOMAIN stac_links : Accounted(i) = 1
        /\ stac_links = <<>> =>
               /\ stores_by_netloc = {}
               /\ ~semaphore.made
               /\ tasks = <<>>

\* C2: in every reachable state the number of tasks between acquire and
\* release is at most max_concurrent, counted over all hosts together.
C2_ConcurrencyCeiling == Cardinality(InFlight) <= max_concurrent

\* C2 witness: the ceiling is reached by fetches on two different hosts while
\* another task waits for a permit.
C2_Witness ==
    /\ Cardinality(InFlight) = max_concurrent
    /\ \E i, j \in InFlight : stac_links[i].netloc # stac_links[j].netloc
    /\ \E i \in DOMAIN tasks : tasks[i].st = "pending"

\* C3: a fetch that raises is caught in its own task and yields (None, link):
\* no task ends by raising, fetch_stac_items never raises, and when it returns
\* every task has run to its own outcome, the failed links being exactly the
\* links whose fetch raised.
C3_FailureIsolated ==
    /\ fpc # "raised"
    /\ \A i \in DOMAIN tasks :
          /\ tasks[i].st # "raised"
          /\ IsException(tasks[i].outcome) =>
                /\ tasks[i].st = "done"
                /\ tasks[i].item = PyNone
                /\ tasks[i].failed # PyNone
                /\ tasks[i].failed.url = stac_links[i]
    /\ (fpc = "returned" /\ stac_links # <<>>) =>
          /\ \A i \in DOMAIN stac_links : tasks[i].st = "done"
          /\ \A i \in DOMAIN stac_links :
                IsException(tasks[i].outcome)
                  <=> \E k \in DOMAIN failed_links :
                         failed_links[k].from = i /\ failed_links[k].url = stac_links[i]
          /\ \A i \in DOMAIN stac_links :
                tasks[i].outcome = "Doc"
                  <=> \E k \in DOMAIN successful_items : successful_items[k].from = i

\* C3 witness: a batch returned in which the first link failed and a later
\* link, fetched after that failure, succeeded.
C3_Witness ==
    /\ fpc = "returned"
    /\ Len(stac_links) >= 2
    /\ IsException(tasks[1].outcome)
    /\ tasks[2].outcome = "Doc"
    /\ Len(failed_links) >= 1
    /\ Len(successful_items) >= 1

-----------------------------------------------------------------------------
\* Properties of the pagination.

RECURSIVE EntriesOf(_)
EntriesOf(pages) ==
    IF pages = <<>> THEN <<>> ELSE Head(pages).entry \o EntriesOf(Tail(pages))

\* C4: when the pagination has ended normally after k successful pages, only
\* the last of them carried no cursor, exactly k requests were issued, the
\* first without a cursor and each next one with the cursor of the response
\* before it, and the records collected are those of the k pages, each once,
\* in page order and within-page order.
C4_PaginationFollowsCursor ==
    cpc = "done" =>
        /\ Len(served) >= 1
        /\ \A i \in DOMAIN served : served[i].status = 200
        /\ \A i \in 1..(Len(served) - 1) : Truthy(served[i].cursor)
        /\ ~Truthy(served[Len(served)].cursor)
        /\ Len(requests) = Len(served)
        /\ requests[1] = PyNone
        /\ \A i \in 1..(Len(served) - 1) : requests[i + 1] = served[i].cursor
        /\ results = EntriesOf(served)
        /\ returned = PyList(EntriesOf(served))
        /\ ~ENABLED NextCmr

\* C4 witness: three pages with two different cursors, records on each.
C4_Witness ==
    /\ cpc = "done"
    /\ Len(served) = 3
    /\ served[1].cursor # served[2].cursor
    /\ \A i \in DOMAIN served : Len(served[i].entry) >= 1

\* C5: once page j answered with a non-success status the collector has
\* raised; j requests were issued in total, none after the failure and none
\* repeating page j, no record of page j was collected, and
\* collect_cmr_results returned nothing.
C5_ErrorPageRaises ==
    (served # <<>> /\ served[Len(served)].status # 200) =>
        /\ cpc = "raised"
        /\ Len(requests) = Len(served)
        /\ results = EntriesOf(SubSeq(served, 1, Len(served) - 1))
        /\ returned = PyNone
        /\ ~ENABLED NextCmr

\* C5 witness: the second page failed after records of the first were
\* collected.
C5_Witness ==
    /\ cpc = "raised"
    /\ Len(served) = 2
    /\ served[2].status = 500
    /\ Len(served[2].entry) >= 1
    /\ Len(results) >= 1

-----------------------------------------------------------------------------
\* Properties of extract_stac_json_links.

\* The entry the specification selects in a links array: the first whose
\* href is a string with the prefix and the suffix.
IsStacEntry(link, pre) ==
    /\ link.t = "dict"
    /\ HasKey(link, "href")
    /\ link.m.href.t = "str"
    /\ StartsWith(link.m.href.v, pre)
    /\ EndsWith(link.m.href.v, Suffix)

RECURSIVE ExpectedExtraction(_, _)
ExpectedExtraction(records, pre) ==
    IF records = <<>> THEN <<>>
    ELSE LET r == Head(records)
             ok == r.t = "dict" /\ HasKey(r, "links") /\ r.m.links.t = "list"
             es == IF ok THEN SelectSeq(r.m.links.v, LAMBDA e : IsStacEntry(e, pre)) ELSE <<>>
         IN (IF es = <<>> THEN <<>> ELSE <<UrlParse(es[1].m.href.v)>>)
              \o ExpectedExtraction(Tail(records), pre)

\* C6: extract_stac_json_links never raises, whatever the records hold, and
\* returns, in record order, for each record the first entry of its links
\* array whose href starts with the prefix and ends with stac.json, and
\* nothing for a record without one.
C6_ExtractNeverRaises ==
    /\ epc # "raised"
    /\ epc = "returned" => extracted = ExpectedExtraction(cmr_results, prefix)

-----------------------------------------------------------------------------
\* Properties of write_monthly_stac_geoparquet, checked under SpecMonthly.

\* The completeness check has run: the run is past line 198.
PastCheck == require_complete_links /\ mpc \in {"failed", "sort", "fetch", "fetching", "write", "done"}

\* The run ended with the ValueError of the completeness check.
CheckFailed == mpc = "failed" /\ error_args # <<>>

\* The length of a month by the calendar.
CalendarLength(year, month) ==
    IF month = 2 THEN (IF IsLeap(year) THEN 29 ELSE 28)
    ELSE IF month \in {4, 6, 9, 11} THEN 30 ELSE 31

\* The daily paths a complete month has: from the origin day in the
\* collection's origin month, from day 1 otherwise, to the end of the month.
DailyPathsOfMonth ==
    LET origin == OriginDate(collection)
        first == IF yearmonth.year = origin.year /\ yearmonth.month = origin.month
                 THEN origin.day ELSE 1
    IN { LinkPath(collection, yearmonth.year, yearmonth.month, day) :
           day \in first..CalendarLength(yearmonth.year, yearmonth.month) }

\* C7: with require_complete_links set, the run raises at the completeness
\* check if and only if the set of paths listed under the month prefix differs
\* from the expected set of daily paths; with equal sets it goes on.
C7_RaisesIffSetsDiffer ==
    PastCheck => (CheckFailed <=> ListedPaths(store0) # DailyPathsOfMonth)

\* C7 witness: every expected day is cached and one more object lies under
\* the prefix, and the check has raised.
C7_Witness ==
    /\ CheckFailed
    /\ DailyPathsOfMonth \subseteq ListedPaths(store0)
    /\ ExtraPath(collection, yearmonth.year, yearmonth.month) \in ListedPaths(store0)

\* C8 as stated: a run that fails the completeness check has started no
\* fetch task, has not called the writer, and no consolidated file is at the
\* output path.
C8_FailedCheckLeavesNoFile ==
    CheckFailed =>
        /\ fpc = "idle" /\ tasks = <<>>
        /\ write_calls = <<>>
        /\ OutPath \notin DOMAIN store

\* C8 amended: a run that fails the completeness check has started no fetch
\* task and has not called the writer, and the store is as it was when the
\* run started: a consolidated file an earlier run left stays, none is made.
C8_FailedCheckBeforeFetchAndWrite ==
    CheckFailed =>
        /\ fpc = "idle" /\ tasks = <<>>
        /\ write_calls = <<>>
        /\ store = store0

\* C8 witness: the check has raised in a month whose caches hold links to
\* fetch, with a consolidated file of an earlier run at the output path.
C8_Witness ==
    /\ CheckFailed
    /\ stac_json_links # <<>>
    /\ OutPath \in DOMAIN store

\* C9: the expected daily keys are exactly the days first_day..last_day of
\* the month, last_day the calendar length of the month, first_day the origin
\* day in the origin month and 1 otherwise, in day order and each once; for
\* HLSS30 and November 2015 they are the three keys of days 28, 29, 30.
C9_ExpectedDailyKeys ==
    PastCheck =>
        /\ Range(expected_links) = DailyPathsOfMonth
        /\ Len(expected_links) = Cardinality(DailyPathsOfMonth)
        /\ (collection = "HLSS30" /\ yearmonth = [year |-> 2015, month |-> 11]) =>
               expected_links = << LinkPath("HLSS30", 2015, 11, 28),
                                   LinkPath("HLSS30", 2015, 11, 29),
                                   LinkPath("HLSS30", 2015, 11, 30) >>

\* C9 witness: the check has run for HLSS30 and November 2015 and passed on
\* a store holding the caches of days 28 to 30.
C9_Witness ==
    /\ PastCheck /\ ~CheckFailed
    /\ collection = "HLSS30" /\ yearmonth = [year |-> 2015, month |-> 11]
    /\ Len(expected_links) = 3

\* C10: the error of a failed completeness check enumerates the expected
\* daily keys and the daily cache keys found in storage.
C10_ErrorEnumeratesBothSets ==
    CheckFailed =>
        /\ Range(error_args[1].lines) = DailyPathsOfMonth
        /\ Range(error_args[2].lines) = ListedPaths(store0)

-----------------------------------------------------------------------------
\* Properties of the order of the fetched and the written documents.

\* The indices of a sequence of items or links, as submitted.
Froms(xs) == [k \in DOMAIN xs |-> xs[k].from]

Increasing(ns) == \A j, k \in DOMAIN ns : j < k => ns[j] < ns[k]

\* The tasks that ended with an item, in the order they finished.
RECURSIVE SucceededIn(_)
SucceededIn(order) ==
    IF order = <<>> THEN <<>>
    ELSE (IF tasks[Head(order)].item # PyNone THEN <<Head(order)>> ELSE <<>>)
            \o SucceededIn(Tail(order))

\* C11: in every sequence handed to the writer, of two adjacent documents
\* the sort key of the first one's source URL is at most that of the second,
\* whatever order the fetch tasks finished in.
C11_WrittenOrderedByKey ==
    \A c \in DOMAIN write_calls :
        LET items == write_calls[c].items IN
        \A j \in 1..(Len(items) - 1) :
            HilbertSortKey(GetUrl(items[j].url)) <= HilbertSortKey(GetUrl(items[j + 1].url))

\* C11 witness: two documents were written whose links the caches held in
\* the other order, and the second task finished first.
C11_Witness ==
    /\ mpc = "done"
    /\ Len(write_calls[1].items) = 2
    /\ completed = <<2, 1>>
    /\ ReadAll(store0, ListStream(store0)) # stac_json_links

\* C12 as stated: the success list is in the order the tasks finished.
C12_SuccessInCompletionOrder ==
    fpc = "returned" => Froms(successful_items) = SucceededIn(completed)

\* C12 amended: the success list is in the order the links were submitted,
\* whatever order the tasks finished in.
C12_SuccessInSubmissionOrder ==
    fpc = "returned" => Increasing(Froms(successful_items))

\* C12 witness: two items are returned whose tasks finished in the order
\* opposite to their submission.
C12_Witness ==
    /\ fpc = "returned"
    /\ Len(successful_items) >= 2
    /\ ~Increasing(SucceededIn(completed))

-----------------------------------------------------------------------------
\* Properties of cache_daily_stac_json_links, checked under SpecDaily.

\* C13: of two calls in sequence with skip_existing set and the same
\* arguments, the first one's query succeeding, exactly one put is made in
\* total: the second call issues no catalog request and no put, returns, and
\* leaves the stored content as the first call left it.
C13_SecondCallSkips ==
    (cache_skip_existing /\ Len(cache_history) >= 2 /\ cache_history[1].outcome = "done") =>
        /\ cache_history[2].outcome = "skipped"
        /\ cache_history[2].store = cache_history[1].store
        /\ { k \in DOMAIN cache_puts : cache_puts[k].call \in {1, 2} } = {1}
        /\ cache_puts[1].call = 1
        /\ \A k \in DOMAIN cache_queries : cache_queries[k].call # 2

\* C13 witness: the first call queried and put, and the second call has
\* ended.
C13_Witness ==
    /\ cache_skip_existing
    /\ Len(cache_history) >= 2
    /\ cache_history[1].outcome = "done"
    /\ cache_history[1].store[DailyOutPath] # PyList(<<>>)

\* The puts of a call.
PutsOf(c) == { k \in DOMAIN cache_puts : cache_puts[k].call = c }

\* C15 as stated: a call whose query yields zero links fails and writes
\* nothing to the cache path.
C15_EmptyResultFails ==
    \A c \in DOMAIN cache_history :
        cache_history[c].links = PyList(<<>>) =>
            cache_history[c].outcome = "raised" /\ PutsOf(c) = {}

\* C15 amended: a call whose query yields zero links does not fail: it puts
\* the empty JSON array at the cache path, once, and returns.
C15_EmptyResultWritten ==
    \A c \in DOMAIN cache_history :
        cache_history[c].links = PyList(<<>>) =>
            /\ cache_history[c].outcome = "done"
            /\ Cardinality(PutsOf(c)) = 1
            /\ \A k \in PutsOf(c) :
                  cache_puts[k].path = DailyOutPath /\ cache_puts[k].content = PyList(<<>>)
            /\ cache_history[c].store[DailyOutPath] = PyList(<<>>)

\* C15 witness: a call whose query yielded zero links has returned with the
\* empty array stored.
C15_Witness ==
    /\ dpc = "done"
    /\ cache_links = PyList(<<>>)
    /\ cache_store[DailyOutPath] = PyList(<<>>)

-----------------------------------------------------------------------------
\* Properties of the skip of write_monthly_stac_geoparquet (SpecMonthly).

\* C14: with skip_existing set and an object at the consolidated output
\* path, the run returns without listing the prefix, reading a cache, running
\* the completeness check, fetching a document or calling the writer, and the
\* store is left as it was.
C14_SkipDoesNothing ==
    (skip_existing /\ OutPath \in DOMAIN store0) =>
        /\ mpc \in {"start", "skipped"}
        /\ actual_links = <<>> /\ stac_json_links = <<>>
        /\ expected_links = <<>> /\ error_args = <<>>
        /\ fpc = "idle" /\ tasks = <<>> /\ stac_items = <<>>
        /\ write_calls = <<>>
        /\ store = store0

\* C14 witness: the run has returned at the skip, on a store whose month
\* prefix holds caches with links in them.
C14_Witness ==
    /\ mpc = "skipped"
    /\ require_complete_links
    /\ ReadAll(store0, ListStream(store0)) # <<>>

-----------------------------------------------------------------------------
\* Properties of the fetch of write_monthly_stac_geoparquet (SpecMonthly).

\* The documents of the tasks that fetched one, in the order of the links,
\* tagged with the collection id.
RECURSIVE TaggedDocsFrom(_)
TaggedDocsFrom(i) ==
    IF i > Len(tasks) THEN <<>>
    ELSE (IF tasks[i].outcome = "Doc"
          THEN << [t |-> "dict", from |-> i, url |-> stac_links[i],
                   collection |-> CollectionId(collection)] >>
          ELSE <<>>) \o TaggedDocsFrom(i + 1)

-----------------------------------------------------------------------------
\* Properties of the spatial sort key and the sort, checked under SpecSort.

\* The URL has the tile pattern and the converter accepts its tile.
Resolves(url) ==
    \E i \in 1..(Len(url) - 2) :
        url[i] = ".T" /\ url[i + 1] \in {"60WWV", "15TVM"} /\ url[i + 2] = "."

\* The elements of a list whose sort key is k, in order.
RECURSIVE WithKey(_, _)
WithKey(xs, k) ==
    IF xs = <<>> THEN <<>>
    ELSE (IF HilbertSortKey(Head(xs)) = k THEN <<Head(xs)>> ELSE <<>>)
            \o WithKey(Tail(xs), k)

\* C17: the sort puts every URL whose tile does not resolve after every
\* URL whose tile resolves: resolved keys lie in 0..2^28-1 and the others have
\* the key 2^28; URLs of equal key keep their relative original order.
C17_UnresolvedLastAndStable ==
    /\ probe_index \in -1..(2 ^ 28 - 1)
    /\ spc = "sorted" =>
          /\ Len(sort_output) = Len(sort_input)
          /\ \A i \in DOMAIN sort_input :
                IF Resolves(sort_input[i])
                THEN HilbertSortKey(sort_input[i]) \in 0..(2 ^ 28 - 1)
                ELSE HilbertSortKey(sort_input[i]) = 2 ^ 28
          /\ \A j, k \in DOMAIN sort_output :
                (j < k /\ ~Resolves(sort_output[j])) => ~Resolves(sort_output[k])
          /\ \A i \in DOMAIN sort_input :
                LET key == HilbertSortKey(sort_input[i]) IN
                WithKey(sort_output, key) = WithKey(sort_input, key)

\* C17 witness: a list of two unresolved URLs around a resolved one has been
\* sorted.
C17_Witness ==
    /\ spc = "sorted"
    /\ Len(sort_input) = 3
    /\ ~Resolves(sort_input[1]) /\ Resolves(sort_input[2]) /\ ~Resolves(sort_input[3])
    /\ sort_input[1] # sort_input[3]
    /\ sort_output = <<sort_input[2], sort_input[1], sort_input[3]>>

\* C18: the key derivation never raises: a URL without the tile pattern
\* has the key 2^28, a URL whose tile the conversion rejects has the key 2^28,
\* and the sort of the list is not aborted.
C18_KeyNeverRaises ==
    /\ spc # "raised"
    /\ \A i \in DOMAIN sort_keys :
          /\ sort_keys[i].exc = ""
          /\ ~Resolves(sort_input[i]) => sort_keys[i].v = 2 ^ 28

\* C18 witness: a list holding a URL whose tile the converter rejects, a
\* URL without the pattern and a URL that resolves has been sorted.
C18_Witness ==
    /\ spc = "sorted"
    /\ \E i, j, k \in DOMAIN sort_input :
          /\ ExtractMgrsFromUrl(sort_input[i]) = PyStr("00ABC")
          /\ ExtractMgrsFromUrl(sort_input[j]) = PyNone
          /\ Resolves(sort_input[k])

-----------------------------------------------------------------------------
\* Properties of the daily cache path, checked under SpecPath.

MonthOf(key) == <<key.collection, key.year, key.month>>

\* C19: the daily cache path is an injective function of its key: two keys
\* that differ in a component have different paths; a daily path lies under
\* the listing prefix of its month, and no daily path of another month or
\* collection does.
C19_PathInjective ==
    ppc = "done" =>
        /\ key_a # key_b => path_a # path_b
        /\ UnderPrefix(path_a, prefix_a)
        /\ StartsWith(path_a, prefix_a)
        /\ MonthOf(key_b) # MonthOf(key_a) =>
              ~UnderPrefix(path_b, prefix_a) /\ ~StartsWith(path_b, prefix_a)

\* C19 witness: the paths of the days 1 and 11 of one month have been
\* formatted and differ.
C19_Witness ==
    /\ ppc = "done"
    /\ MonthOf(key_a) = MonthOf(key_b)
    /\ key_a.day = 1 /\ key_b.day = 11
    /\ path_a # path_b

-----------------------------------------------------------------------------
\* Properties of the SQS handler, checked under SpecHandler.

\* The message ids of the records whose processing raised, in list order.
RECURSIVE FailedIdsFrom(_)
FailedIdsFrom(i) ==
    IF i > Len(processed) THEN <<>>
    ELSE (IF processed[i].exc # ""
          THEN << [itemIdentifier |-> event.Records[processed[i].idx].messageId] >>
          ELSE <<>>) \o FailedIdsFrom(i + 1)

-----------------------------------------------------------------------------
\* The days of the range of a call, first to last, as the dates of their
\* messages.
RECURSIVE DaysFrom(_, _)
DaysFrom(first, n) ==
    IF n <= 0 THEN <<>>
    ELSE <<IsoFormat(first)>> \o DaysFrom(PlusDays(first, 1), n - 1)

RangeDays == DaysFrom(start_date, ToOrdinal(end_date) - ToOrdinal(start_date) + 1)

MessageDates == [i \in DOMAIN sns_messages |-> sns_messages[i].date]

\* C21: a call that returns has published exactly one message for every
\* calendar day from start_date to end_date inclusive, in ascending order of
\* date, each with its day's date, and reports messages_published =
\* (end_date - start_date).days + 1; a call whose publish failed on a day has
\* published the days before it and none after.
C21_OneMessagePerDay ==
    /\ bpc = "returned" =>
          /\ MessageDates = RangeDays
          /\ \A i \in DOMAIN sns_messages :
                sns_messages[i].collection = pub_event.collection
          /\ pub_response.body.messages_published =
                TimedeltaDays(end_date, start_date) + 1
          /\ pub_response.body.messages_published = Len(sns_messages)
    /\ (bpc = "raised" /\ pub_exc.kind = "PublishError") =>
          \E k \in 0..(MaxPublishDays + 1) :
             /\ MessageDates = DaysFrom(start_date, k)
             /\ pub_exc.date = IsoFormat(PlusDays(start_date, k))
             /\ DatetimeLe(PlusDays(start_date, k), end_date)
    /\ bpc \in {"loop", "raised"} /\ start_date # PyNone /\ current_date # PyNone =>
          MessageDates = DaysFrom(start_date, Len(sns_messages))

\* a range over the end of February of a leap year with a defaulted end, and
\* a range that starts at a collection's origin
C21_Witness ==
    /\ bpc = "returned"
    /\ pub_event.end_date = <<>>
    /\ now.second # 0
    /\ Len(sns_messages) = MaxPublishDays + 1
    /\ sns_messages[1].date = <<"2", "0", "1", "6", "-", "0", "2", "-", "2", "7">>
    /\ sns_messages[4].date = <<"2", "0", "1", "6", "-", "0", "3", "-", "0", "1">>

-----------------------------------------------------------------------------
\* A box in range and not inverted.
ValidBox(b) ==
    /\ 0 - 180 <= b[1] /\ b[1] <= 180 /\ 0 - 180 <= b[3] /\ b[3] <= 180
    /\ 0 - 90 <= b[2] /\ b[2] <= 90 /\ 0 - 90 <= b[4] /\ b[4] <= 90
    /\ b[1] < b[3]
    /\ b[2] < b[4]

\* C22: building a query with a bounding box whose coordinates are out of
\* range or inverted fails with a validation error, and a valid box is
\* accepted and passed on unchanged.
C22_QueryRejectsBadBox ==
    (qpc \in {"returned", "raised"} /\ bounding_box # <<>>) =>
        IF ValidBox(bounding_box)
        THEN qpc = "returned" /\ query.bounding_box = bounding_box
        ELSE qpc = "raised"

-----------------------------------------------------------------------------
\* The positions of the results with a property.
Positions(rs, P(_)) == { i \in DOMAIN rs : P(rs[i]) }

IsSuccessful(r) == "success" \in DOMAIN r /\ r.success

IsSkipped(r) == "skipped" \in DOMAIN r /\ r.skipped

IsFailedDay(r) == ~IsSuccessful(r) /\ ~IsSkipped(r)

RECURSIVE SumOver(_, _)
SumOver(rs, I) ==
    IF I = {} THEN 0
    ELSE LET i == CHOOSE j \in I : TRUE
         IN rs[i].stac_items_fetched + SumOver(rs, I \ {i})

\* C23: the summary of a list of per-day results has successful + failed =
\* total_days, counts every skipped day among the successful, lists in
\* failed_days exactly the days neither successful nor skipped, in order,
\* sums stac_items_fetched over the successful results only, and is
\* total_days 0 with success_rate 0 for the empty list.
C23_SummaryCounts ==
    stats_pc = "returned" =>
        /\ stats.total_days = Len(stats_results)
        /\ stats.successful + stats.failed = stats.total_days
        /\ stats.successful = Cardinality(Positions(stats_results, IsSuccessful))
        /\ Positions(stats_results, IsSkipped) \subseteq Positions(stats_results, IsSuccessful)
        /\ stats.skipped = Cardinality(Positions(stats_results, IsSkipped))
        /\ Len(stats.failed_days) = Cardinality(Positions(stats_results, IsFailedDay))
        /\ Len(stats.failed_days) = stats.failed
        /\ \A j \in DOMAIN stats.failed_days :
              \E i \in Positions(stats_results, IsFailedDay) :
                 /\ Cardinality({ k \in Positions(stats_results, IsFailedDay) : k <= i }) = j
                 /\ stats.failed_days[j].date = stats_results[i].date
                 /\ stats.failed_days[j].error = stats_results[i].error
        /\ stats.total_stac_items =
              SumOver(stats_results,
                      { i \in Positions(stats_results, IsSuccessful) :
                          "stac_items_fetched" \in DOMAIN stats_results[i] })
        /\ stats_results = <<>> =>
              stats.total_days = 0 /\ stats.success_rate[1] = 0

\* the list of the test: a written day, a skipped day and a failed day
C23_Witness ==
    /\ stats_pc = "returned"
    /\ Len(stats_results) = 3
    /\ stats_results[1].success /\ ~stats_results[1].skipped
    /\ stats_results[2].skipped
    /\ ~stats_results[3].success
    /\ stats.successful = 2 /\ stats.skipped = 1 /\ stats.failed = 1
    /\ stats.total_stac_items = 2
    /\ Len(stats.failed_days) = 1

-----------------------------------------------------------------------------
\* C24: generate_date_range(start, end) is the days start, start + 1 day, ...
\* up to end inclusive, in ascending order: one element when start = end,
\* none when start > end; generate_month_dates(year, month) is the days
\* 1..n of the month in order, n the calendar length of the month, 29 for
\* February of a leap year and 28 otherwise.
C24_DateLists ==
    /\ (gpc = "returned" /\ dates_call.fn = "generate_date_range") =>
          LET s == dates_call.start_date
              e == dates_call.end_date
          IN /\ \A i \in DOMAIN dates :
                   /\ ToOrdinal(dates[i]) = ToOrdinal(s) + i - 1
                   /\ dates[i].second = s.second
                   /\ DatetimeLe(dates[i], e)
             /\ Len(dates) = IF DatetimeLe(s, e) THEN TimedeltaDays(e, s) + 1 ELSE 0
             /\ s = e => dates = <<s>>
             /\ ~DatetimeLe(s, e) => dates = <<>>
    /\ (gpc = "returned" /\ dates_call.fn = "generate_month_dates") =>
          LET y == dates_call.year
              m == dates_call.month
              n == IF m = 2 THEN (IF y \in {2000, 2016} THEN 29 ELSE 28)
                   ELSE IF m \in {4, 6, 9, 11} THEN 30 ELSE 31
          IN /\ Len(dates) = n
             /\ \A i \in 1..n :
                   dates[i] = [year |-> y, month |-> m, day |-> i, second |-> 0]

\* a range from the last day of 2015 over 29 February 2016
C24_Witness ==
    /\ gpc = "returned"
    /\ dates_call.fn = "generate_date_range"
    /\ Len(dates) = 62
    /\ dates[1].year = 2015 /\ dates[2].year = 2016
    /\ dates[61].month = 2 /\ dates[61].day = 29
    /\ dates[62].month = 3 /\ dates[62].day = 1

-----------------------------------------------------------------------------
\* The permits held: those the semaphore has handed out and not got back.
HeldPermits == max_concurrent - semaphore.value

\* C25: every task that acquired a permit gives it back when it leaves the
\* block, whether its fetch returned or raised: the permits held are those of
\* the tasks inside the block, a finished task holds none, and none is held
\* when the batch has returned.
C25_PermitsReleased ==
    semaphore.made =>
        /\ HeldPermits = Cardinality(InFlight)
        /\ semaphore.value \in 0..max_concurrent
        /\ fpc = "returned" => HeldPermits = 0

\* a batch that has returned after a fetch failed while another task was
\* waiting for a permit
C25_Witness ==
    /\ fpc = "returned"
    /\ semaphore.made
    /\ max_concurrent = 1
    /\ Len(tasks) >= 2
    /\ IsException(tasks[1].outcome)
    /\ completed[1] = 1
    /\ HeldPermits = 0

-----------------------------------------------------------------------------
\* C29: when every fetch that was started completes or fails, every task of
\* the batch gets a permit and finishes, and fetch_stac_items returns: no
\* task waits on the semaphore for ever.
C29_FetchTerminates ==
    /\ <>(fpc = "returned")
    /\ \A i \in 1..MaxLinks :
          (i \in DOMAIN tasks /\ tasks[i].st = "pending") ~>
             (i \in DOMAIN tasks /\ tasks[i].st = "done" /\ i \in Range(completed))

\* a batch of more links than permits has returned, its last link fetched
\* after another fetch had failed
C29_Witness ==
    /\ fpc = "returned"
    /\ Len(stac_links) > max_concurrent
    /\ completed[Len(completed)] = Len(stac_links)
    /\ \E i \in DOMAIN tasks : IsException(tasks[i].outcome)
    /\ \A i \in DOMAIN tasks : tasks[i].st = "done"

-----------------------------------------------------------------------------
\* The ends of a monthly run.
RunEnds == {"skipped", "done", "failed"}

\* Every fetch task of the batch has finished, over the links in the order
\* of the sort, and the check, when it is asked for, has passed.
ReadyToWrite ==
    /\ fpc = "returned"
    /\ Len(tasks) = Len(stac_json_links)
    /\ \A i \in DOMAIN tasks : tasks[i].st = "done"
    /\ \A j \in 1..(Len(stac_json_links) - 1) :
          HilbertSortKey(stac_json_links[j]) <= HilbertSortKey(stac_json_links[j + 1])
    /\ require_complete_links =>
          expected_links # <<>> /\ ~SetsDiffer(expected_links, actual_links)

\* What is left of a run: the steps of the run, then those of the call of
\* fetch_stac_items, then those of its tasks.
RunRank ==
    << CASE mpc = "start" -> 7 [] mpc = "list" -> 6 [] mpc = "validate" -> 5
         [] mpc = "sort" -> 4 [] mpc = "fetch" -> 3 [] mpc = "fetching" -> 2
         [] mpc = "write" -> 1 [] OTHER -> 0,
       CASE fpc = "idle" -> 3 [] fpc = "call" -> 2 [] fpc = "gather" -> 1 [] OTHER -> 0,
       2 * Cardinality({ i \in DOMAIN tasks : tasks[i].st = "pending" })
          + Cardinality({ i \in DOMAIN tasks : tasks[i].st = "fetching" }) >>

RankLess(a, b) ==
    \/ a[1] < b[1]
    \/ a[1] = b[1] /\ a[2] < b[2]
    \/ a[1] = b[1] /\ a[2] = b[2] /\ a[3] < b[3]

\* A run that has not ended can take a step: the listing and the check have
\* no condition but their place in the run, the other steps are enabled where
\* the run stands, and while the fetch runs one of its steps is.
RunCanStep ==
    /\ mpc = "start" => ENABLED MonthlyStart
    /\ mpc = "sort" => ENABLED MonthlySort
    /\ mpc = "fetch" => ENABLED MonthlyFetchCall
    /\ mpc = "fetching" =>
          ENABLED (\/ FetchCall
                   \/ \E i \in DOMAIN tasks : TaskAcquire(i)
                   \/ \E i \in DOMAIN tasks : TaskFinish(i)
                   \/ GatherEnd
                   \/ MonthlyFetchReturn)
    /\ mpc = "write" => ENABLED MonthlyWrite
    /\ mpc \in {"start", "list", "validate", "sort", "fetch", "fetching", "write"} \cup RunEnds

\* The part of C26 that holds in every state of a run: one write at most,
\* at the end, and a run that has not ended can take a step.
RunWritesOnceAtTheEnd ==
    /\ Len(write_calls) <= 1
    /\ write_calls # <<>> <=> mpc = "done"
    /\ mpc # "done" => store = store0
    /\ mpc = "write" => ReadyToWrite
    /\ mpc = "done" => DOMAIN store = DOMAIN store0 \cup {OutPath}
    /\ RunCanStep

\* The part of C26 that holds of every step of a run: the steps come in the
\* order listing, check (when asked for), sort, fetch, write, an ended run
\* takes no further step, and every step leaves less of the run to do.
RunStepsInOrder ==
    /\ mpc' = "validate" => mpc \in {"validate", "list"} /\ require_complete_links
    /\ mpc' = "sort" =>
          mpc \in {"sort", IF require_complete_links THEN "validate" ELSE "list"}
    /\ mpc' = "fetch" => mpc \in {"fetch", "sort"}
    /\ mpc' = "fetching" => mpc \in {"fetching", "fetch"}
    /\ mpc' = "write" => mpc \in {"write", "fetching"}
    /\ mpc' = "done" => mpc \in {"done", "write"}
    /\ mpc \in RunEnds => mpc' = mpc /\ store' = store /\ write_calls' = write_calls
    /\ RankLess(RunRank', RunRank)

\* C26: every monthly run ends, in exactly one of skipped, done and failed,
\* and stays there (a run that has not ended can always take a step, and each
\* step leaves less of the run to do); the writer is called at most once in a run, and only
\* with the listing, the completeness check when it is asked for, the sort
\* and every fetch task of the batch behind it; a run that ends skipped or
\* failed has written nothing to the store.
C26_RunEndsAndWritesOnce ==
    /\ []RunWritesOnceAtTheEnd
    /\ [][RunStepsInOrder]_vars

\* a run has written a month whose check was asked for and whose links were
\* fetched, one of them failing
C26_Witness ==
    /\ mpc = "done"
    /\ require_complete_links
    /\ Len(write_calls) = 1
    /\ Len(tasks) >= 2
    /\ failed_links # <<>>
    /\ OutPath \notin DOMAIN store0

-----------------------------------------------------------------------------
\* The calls of cache_daily_stac_json_links whose query raised.
RaisedCalls == { c \in DOMAIN cache_history : cache_history[c].outcome = "raised" }

\* The call has ended, or its query has returned.
PastStart(c) == c \in DOMAIN cache_history \/ (c = CallNo /\ dpc = "put")

QueriesOf(c) == { k \in DOMAIN cache_queries : cache_queries[k].call = c }

\* C27 as stated: a call whose query of the catalog raised has put nothing,
\* no object is at the cache path after it, and the next call queries again.
C27_FailedQueryLeavesNoObject ==
    \A c \in RaisedCalls :
        /\ PutsOf(c) = {}
        /\ DailyOutPath \notin DOMAIN cache_history[c].store
        /\ PastStart(c + 1) => QueriesOf(c + 1) # {}

\* C27 amended: a call whose query of the catalog raised has put nothing and
\* leaves the store as the call before it left it; in skip_existing runs no
\* object is at the cache path after it, and the next call queries again.
C27_FailedQueryLeavesStore ==
    \A c \in RaisedCalls :
        /\ PutsOf(c) = {}
        /\ c > 1 => cache_history[c].store = cache_history[c - 1].store
        /\ cache_skip_existing =>
              /\ DailyOutPath \notin DOMAIN cache_history[c].store
              /\ PastStart(c + 1) => QueriesOf(c + 1) # {}
                                      /\ (c + 1 \in DOMAIN cache_history =>
                                             cache_history[c + 1].outcome # "skipped")

\* the query of the first skip_existing call raised and the second call has
\* queried and put the day
C27_Witness ==
    /\ cache_skip_existing
    /\ Len(cache_history) = 2
    /\ cache_history[1].outcome = "raised"
    /\ cache_history[2].outcome = "done"
    /\ Len(cache_queries) = 2
    /\ DailyOutPath \in DOMAIN cache_store

-----------------------------------------------------------------------------
\* the days whose processing raised, inside the try or before it
DayRaised(i) == day_tasks[i].outcome \in {"failed", "raised"}

\* the text of the exception of a day that raised
DayErrorText(i) ==
    IF day_tasks[i].outcome = "raised" THEN StrOf(day_tasks[i].result)
    ELSE day_tasks[i].result.error

\* C28: at no time are more than max_concurrent_days days inside the
\* semaphore; the list returned has one result per date, at the index of the
\* date; a day whose processing raised is there as a record with success
\* False, skipped False and the text of the error; every other day was
\* processed and is there with the record of its own outcome.
C28_ParallelDays ==
    /\ par_pc # "idle" => Cardinality(DaysInProgress) <= max_concurrent_days
    /\ par_pc = "returned" =>
          /\ Len(processed_results) = Len(par_dates)
          /\ \A i \in DOMAIN par_dates :
                /\ processed_results[i].date = DateString(par_dates[i])
                /\ day_tasks[i].st = "done"
                /\ IF DayRaised(i)
                   THEN /\ processed_results[i].success = FALSE
                        /\ processed_results[i].skipped = FALSE
                        /\ processed_results[i].error = DayErrorText(i)
                   ELSE /\ processed_results[i] = day_tasks[i].result
                        /\ processed_results[i].success = TRUE
                        /\ processed_results[i].skipped = (day_tasks[i].outcome = "skipped")

\* three days, two at a time, the second finishing first with an exception
\* raised before the try, the first written and the third failed in the try
C28_Witness ==
    /\ par_pc = "returned"
    /\ Len(par_dates) = 3
    /\ max_concurrent_days = 2
    /\ day_completed = <<2, 1, 3>>
    /\ day_tasks[2].outcome = "raised"
    /\ day_tasks[1].outcome = "written"
    /\ day_tasks[3].outcome = "failed"

-----------------------------------------------------------------------------
\* the puts received at the cache path of the two invocations
PutsAtCachePath ==
    { k \in DOMAIN shared_puts : shared_puts[k].path = InvocationOutPath }

\* C30: two invocations at once with the same collection, date and
\* destination and skip_existing=True perform at most one put at the cache
\* path, however their existence checks and puts interleave.
C30_AtMostOnePut ==
    inv_skip_existing => Cardinality(PutsAtCachePath) <= 1

====
